---------------------------- MODULE Spec2Model ----------------------------
(***************************************************************************)
(* Model of the mecha-dwarf decoder pipeline: the LEB128 codec             *)
(* (src/src/leb.rs), the Mach-O decoder (src/src/macho.rs) and the DWARF   *)
(* decoder (src/src/dwarf.rs).                                             *)
(*                                                                         *)
(* A 64-bit integer (u64 or i64, two's complement) is the set of its bit   *)
(* positions that are 1, a subset of 0..63.  A byte is a number 0..255.    *)
(* A Rust panic (slice index out of range, arithmetic overflow in a build  *)
(* with overflow checks, unwrap of an Err) is the result tag "Panic".      *)
(* The variable build is the cargo profile: "debug" has overflow checks,   *)
(* "release" wraps and masks shift amounts.                                *)
(***************************************************************************)
EXTENDS Integers, Sequences, FiniteSets, TLC

VARIABLES
    build,   \* the cargo profile the program was built with
    call,    \* the function that was called, "none" before the call
    num,     \* its 64-bit integer argument (a bit set)
    bytes,   \* its byte-slice argument
    ret,     \* what a leb.rs function returned
    macho,   \* what macho::File::from returned
    dwarf_seg,  \* the sections of the segment given to dwarf::File::from
    dwarf_file, \* what dwarf::File::from returned
    die_decls,  \* the abbreviation table given to DIE::from / DIE::nfrom
    die_ret,    \* what DIE::from / DIE::nfrom returned
    attr_form,  \* the form given to AttrValue::from
    attr_ret,   \* what AttrValue::from returned
    run         \* a decoding loop between two of its iterations

vars == <<build, call, num, bytes, ret, macho, dwarf_seg, dwarf_file,
          die_decls, die_ret, attr_form, attr_ret, run>>

\* ------------------------------------------------------------------ bounds

\* Largest number of 1 bits in a sampled 64-bit input of the encoders.
MaxSetBits == 2
\* Largest number of leading continuation bytes in a sampled decoder input.
MaxCont == 11
\* Largest number of load commands in a sampled Mach-O image.
MaxLoads == 2
\* Largest number of children of the root entry in a sampled __debug_info.
MaxSiblings == 1

\* --------------------------------------------------------------- bit level

Builds == {"debug", "release"}

Bits64 == 0..63

RECURSIVE Pow2(_)
Pow2(k) == IF k = 0 THEN 1 ELSE 2 * Pow2(k - 1)

\* `x as u8` of a bit set: the number made of bits 0..7.
RECURSIVE ByteOfBits(_)
ByteOfBits(s) ==
    LET low == s \cap (0..7)
    IN IF low = {} THEN 0
       ELSE LET b == CHOOSE x \in low : TRUE
            IN Pow2(b) + ByteOfBits(low \ {b})

\* `b as u64` / `b as i64` of a byte.
BitsOfByte(b) == {i \in 0..7 : (b \div Pow2(i)) % 2 = 1}

\* The bit set of a number 0 <= v < 2^31.
BitsOfInt(v) == {i \in 0..30 : (v \div Pow2(i)) % 2 = 1}

\* u64 >> k (logical).
ShrU(n, k) == {b - k : b \in {x \in n : x >= k}}

\* i64 >> k (arithmetic: the sign bit fills in).
ShrI(n, k) == ShrU(n, k) \cup (IF 63 \in n THEN (64 - k)..63 ELSE {})

\* x << s for 0 <= s < 64: bits shifted past bit 63 are dropped.
Shl(x, s) == {b + s : b \in x} \cap Bits64

\* -(x) for an i64 that is not i64::MIN.
Neg(x) ==
    IF x = {} THEN {}
    ELSE LET l == CHOOSE b \in x : \A c \in x : b <= c
         IN {l} \cup {b \in (l + 1)..63 : b \notin x}

MinusOne == Bits64
I64Min == {63}

\* ------------------------------------------------------------------ results

\* Ok((v, k)), Err(e), a panic, and the boxed slice an encoder returns.
Ok(v, k) == [tag |-> "Ok", val |-> v, len |-> k, out |-> <<>>]
Err(e) == [tag |-> e, val |-> {}, len |-> 0, out |-> <<>>]
Panic == [tag |-> "Panic", val |-> {}, len |-> 0, out |-> <<>>]
Boxed(out) == [tag |-> "Bytes", val |-> {}, len |-> 0, out |-> out]
NoRet == [tag |-> "none", val |-> {}, len |-> 0, out |-> <<>>]

LastByteHasContinueBit == Err("LastByteHasContinueBit")

\* ---------------------------------------------------------------- leb.rs

RECURSIVE UlebEncodeLoop(_, _)
UlebEncodeLoop(n, out) ==
    LET byte0 == ByteOfBits(n \cap (0..6)) + 128
        n1 == ShrU(n, 7)
        byte == IF n1 = {} THEN byte0 - 128 ELSE byte0
        out1 == Append(out, byte)
    IN IF n1 = {} THEN out1 ELSE UlebEncodeLoop(n1, out1)

UlebEncodeNoClear(n) ==
    LET RECURSIVE L(_, _)
        L(m, out) ==
            LET m1 == ShrU(m, 7)
                out1 == Append(out, ByteOfBits(m \cap (0..6)) + 128)
            IN IF m1 = {} THEN out1 ELSE L(m1, out1)
    IN L(n, <<>>)

uleb128_encode(n) == UlebEncodeLoop(n, <<>>)

\* One iteration of the for loop of uleb128_decode at 1-based index i.
RECURSIVE UlebDecodeLoop(_, _, _, _, _)
UlebDecodeLoop(bld, bs, i, val, shift) ==
    IF i > Len(bs) THEN LastByteHasContinueBit
    ELSE IF shift >= 64 /\ bld = "debug" THEN Panic
    ELSE LET b == bs[i]
             byte == BitsOfByte(b) \cap (0..6)
             val1 == val \cup Shl(byte, shift % 64)
         IN IF b < 128 THEN Ok(val1, i)
            ELSE UlebDecodeLoop(bld, bs, i + 1, val1, shift + 7)

UlebDecodeShift8(bld, bs) ==
    LET RECURSIVE L(_, _, _)
        L(i, val, shift) ==
            IF i > Len(bs) THEN LastByteHasContinueBit
            ELSE IF shift >= 64 /\ bld = "debug" THEN Panic
            ELSE LET b == bs[i]
                     val1 == val \cup Shl(BitsOfByte(b) \cap (0..6), shift % 64)
                 IN IF b < 128 THEN Ok(val1, i) ELSE L(i + 1, val1, shift + 8)
    IN L(1, {}, 0)

uleb128_decode(bld, bs) == UlebDecodeLoop(bld, bs, 1, {}, 0)

RECURSIVE IlebEncodeLoop(_, _)
IlebEncodeLoop(n, out) ==
    LET byte0 == ByteOfBits(n \cap (0..6))
        n1 == ShrI(n, 7)
        stop == \/ (n1 = {} /\ 6 \notin n)
                \/ (n1 = MinusOne /\ 6 \in n)
        byte == IF stop THEN byte0 ELSE byte0 + 128
        out1 == Append(out, byte)
    IN IF stop THEN out1 ELSE IlebEncodeLoop(n1, out1)

IlebEncodeLogicalShift(n) ==
    LET RECURSIVE L(_, _)
        L(m, out) ==
            LET byte0 == ByteOfBits(m \cap (0..6))
                m1 == ShrU(m, 7)
                stop == \/ (m1 = {} /\ 6 \notin m)
                        \/ (m1 = MinusOne /\ 6 \in m)
                out1 == Append(out, IF stop THEN byte0 ELSE byte0 + 128)
            IN IF stop THEN out1 ELSE L(m1, out1)
    IN L(n, <<>>)

ileb128_encode(n) == IlebEncodeLoop(n, <<>>)

\* The for loop of ileb128_decode: the state after the loop, or "Panic".
RECURSIVE IlebDecodeLoop(_, _, _, _, _, _, _)
IlebDecodeLoop(bld, bs, i, result, shift, last_i, last_byte) ==
    IF i > Len(bs)
    THEN [tag |-> "Ok", result |-> result, shift |-> shift,
          last_i |-> last_i, last_byte |-> last_byte]
    ELSE IF shift >= 64 /\ bld = "debug"
    THEN [tag |-> "Panic", result |-> result, shift |-> shift,
          last_i |-> i - 1, last_byte |-> bs[i]]
    ELSE LET b == bs[i]
             data == BitsOfByte(b) \cap (0..6)
             result1 == result \cup Shl(data, shift % 64)
         IN IF b < 128
            THEN [tag |-> "Ok", result |-> result1, shift |-> shift + 7,
                  last_i |-> i - 1, last_byte |-> b]
            ELSE IlebDecodeLoop(bld, bs, i + 1, result1, shift + 7, i - 1, b)

IlebDecodeNoContinueCheck(bld, st) ==
    IF st.tag = "Panic" THEN Panic
    ELSE IF st.shift < 64 /\ (st.last_byte \div 64) % 2 = 1
    THEN IF {st.shift} = I64Min
         THEN IF bld = "debug" THEN Panic
              ELSE Ok(st.result \cup I64Min, st.last_i + 1)
         ELSE Ok(st.result \cup Neg({st.shift}), st.last_i + 1)
    ELSE Ok(st.result, st.last_i + 1)

\* The code after the loop of ileb128_decode.
IlebDecodeFinish(bld, st) ==
    IF st.tag = "Panic" THEN Panic
    ELSE IF st.last_byte >= 128 THEN LastByteHasContinueBit
    ELSE IF st.shift < 64 /\ (st.last_byte \div 64) % 2 = 1
    THEN \* result |= -(1 << shift); -(i64::MIN) overflows.
         IF {st.shift} = I64Min
         THEN IF bld = "debug" THEN Panic
              ELSE Ok(st.result \cup I64Min, st.last_i + 1)
         ELSE Ok(st.result \cup Neg({st.shift}), st.last_i + 1)
    ELSE Ok(st.result, st.last_i + 1)

ileb128_decode(bld, bs) ==
    IlebDecodeFinish(bld, IlebDecodeLoop(bld, bs, 1, {}, 0, 0, 0))

\* ------------------------------------------------------- machine integers

\* A u32 or u64 read from little-endian bytes (from_ne_bytes on the
\* little-endian hosts Mach-O is written for).
LeBits(bs) == UNION {{8 * (i - 1) + b : b \in BitsOfByte(bs[i])} : i \in 1..Len(bs)}

\* bytes[off .. off+len] of a slice (off is 0-based); the caller has checked
\* that off + len <= Len(bs).
Slice(bs, off, len) == SubSeq(bs, off + 1, off + len)

U32At(bs, off) == LeBits(Slice(bs, off, 4))
U64At(bs, off) == LeBits(Slice(bs, off, 8))

\* A machine integer below 2^30, as a number.
Small(w) == w \subseteq 0..29

RECURSIVE IntOf(_)
IntOf(w) ==
    IF w = {} THEN 0
    ELSE LET b == CHOOSE x \in w : TRUE
         IN Pow2(b) + IntOf(w \ {b})

\* k < w, for a number k below 2^30 (every slice length is).
IntLess(k, w) == IF Small(w) THEN k < IntOf(w) ELSE TRUE

\* a + b in `width` bits: <<sum, carry out>>.
RECURSIVE AddCarry(_, _, _, _, _)
AddCarry(a, b, i, carry, width) ==
    IF i = width THEN <<{}, carry>>
    ELSE LET ones == (IF i \in a THEN 1 ELSE 0) + (IF i \in b THEN 1 ELSE 0)
                        + (IF carry THEN 1 ELSE 0)
             rest == AddCarry(a, b, i + 1, ones >= 2, width)
         IN <<(IF ones % 2 = 1 THEN {i} ELSE {}) \cup rest[1], rest[2]>>

Add(a, b, width) == AddCarry(a, b, 0, FALSE, width)

\* ---------------------------------------------------------------- macho.rs

\* std::str::from_utf8(..).is_ok() from 1-based index i on.
RECURSIVE Utf8ValidFrom(_, _)
Utf8ValidFrom(bs, i) ==
    LET Cont(j, lo, hi) == j <= Len(bs) /\ lo <= bs[j] /\ bs[j] <= hi
    IN IF i > Len(bs) THEN TRUE
       ELSE LET b == bs[i]
            IN IF b < 128 THEN Utf8ValidFrom(bs, i + 1)
               ELSE IF 194 <= b /\ b <= 223
               THEN Cont(i + 1, 128, 191) /\ Utf8ValidFrom(bs, i + 2)
               ELSE IF 224 <= b /\ b <= 239
               THEN /\ Cont(i + 1, IF b = 224 THEN 160 ELSE 128,
                                   IF b = 237 THEN 159 ELSE 191)
                    /\ Cont(i + 2, 128, 191)
                    /\ Utf8ValidFrom(bs, i + 3)
               ELSE IF 240 <= b /\ b <= 244
               THEN /\ Cont(i + 1, IF b = 240 THEN 144 ELSE 128,
                                   IF b = 244 THEN 143 ELSE 191)
                    /\ Cont(i + 2, 128, 191)
                    /\ Cont(i + 3, 128, 191)
                    /\ Utf8ValidFrom(bs, i + 4)
               ELSE FALSE

Utf8Valid(bs) == Utf8ValidFrom(bs, 1)

\* str::trim_matches(char::from(0)): NULs go from both ends.
RECURSIVE TrimNulStart(_)
TrimNulStart(bs) ==
    IF bs # <<>> /\ Head(bs) = 0 THEN TrimNulStart(Tail(bs)) ELSE bs

RECURSIVE TrimNulEnd(_)
TrimNulEnd(bs) ==
    IF bs # <<>> /\ bs[Len(bs)] = 0
    THEN TrimNulEnd(SubSeq(bs, 1, Len(bs) - 1))
    ELSE bs

trim_matches(bs) == TrimNulEnd(TrimNulStart(bs))

\* The codes CpuType::from, X86Subtype::from, ArmSubtype::from and
\* FileType::from map to a variant; an enum value is its code.
CpuFamilies == {1, 2} \cup (4..18)
X86Subtypes == {3, 4, 132, 86, 103, 119, 8, 24, 40, 10, 11, 27, 12, 28}
ArmSubtypes == 0..16
FileTypes == 1..12

MagicBits32 == LeBits(<<206, 250, 237, 254>>)
MagicBits64 == LeBits(<<207, 250, 237, 254>>)

NoHeader ==
    [cpu_family |-> 0, cpu_subtype |-> {}, is_64_bit |-> FALSE,
     file_type |-> {}, loads_count |-> {}, loads_size |-> {}]

HeaderResult(t, h) == [tag |-> t, header |-> h]

\* RawHeader::from: the eight words, in declaration order (the struct has
\* eight u32 fields, which rustc lays out as declared).
RawHeaderFrom(bs) ==
    [magic |-> U32At(bs, 0), cpu_type |-> U32At(bs, 4),
     cpu_subtype |-> U32At(bs, 8), file_type |-> U32At(bs, 12),
     loads_count |-> U32At(bs, 16), loads_size |-> U32At(bs, 20),
     flags |-> U32At(bs, 24), reserved |-> U32At(bs, 28)]

\* CpuType::from: "Ok", or the error.
CpuTypeFrom(cpu_type, cpu_subtype) ==
    LET family == IntOf(cpu_type \cap (0..7))
    IN IF family \notin CpuFamilies THEN "BadCpuType"
       ELSE IF family = 7 /\ ~(Small(cpu_subtype) /\ IntOf(cpu_subtype) \in X86Subtypes)
       THEN "BadCpuSubtype"
       ELSE IF family = 12 /\ ~(Small(cpu_subtype) /\ IntOf(cpu_subtype) \in ArmSubtypes)
       THEN "BadCpuSubtype"
       ELSE "Ok"

\* from_header without the width test on the magic: either magic passes.
FromHeaderAnyMagic(raw) ==
    LET is_64_bit == 24 \in raw.cpu_type
        cpu == CpuTypeFrom(raw.cpu_type, raw.cpu_subtype)
        family == IntOf(raw.cpu_type \cap (0..7))
    IN IF raw.magic \notin {MagicBits32, MagicBits64}
       THEN HeaderResult("MagicMismatch", NoHeader)
       ELSE IF cpu # "Ok" THEN HeaderResult(cpu, NoHeader)
       ELSE IF ~(Small(raw.file_type) /\ IntOf(raw.file_type) \in FileTypes)
       THEN HeaderResult("BadFileType", NoHeader)
       ELSE HeaderResult("Ok",
                [cpu_family |-> family,
                 cpu_subtype |-> IF family \in {7, 12} THEN raw.cpu_subtype ELSE {},
                 is_64_bit |-> is_64_bit,
                 file_type |-> raw.file_type,
                 loads_count |-> raw.loads_count,
                 loads_size |-> raw.loads_size])

\* Header::from_header.
from_header(raw) ==
    LET is_64_bit == 24 \in raw.cpu_type
        magic_ok == \/ (raw.magic = MagicBits32 /\ ~is_64_bit)
                    \/ (raw.magic = MagicBits64 /\ is_64_bit)
        cpu == CpuTypeFrom(raw.cpu_type, raw.cpu_subtype)
        family == IntOf(raw.cpu_type \cap (0..7))
    IN IF ~magic_ok THEN HeaderResult("MagicMismatch", NoHeader)
       ELSE IF cpu # "Ok" THEN HeaderResult(cpu, NoHeader)
       ELSE IF ~(Small(raw.file_type) /\ IntOf(raw.file_type) \in FileTypes)
       THEN HeaderResult("BadFileType", NoHeader)
       ELSE HeaderResult("Ok",
                [cpu_family |-> family,
                 cpu_subtype |-> IF family \in {7, 12} THEN raw.cpu_subtype ELSE {},
                 is_64_bit |-> is_64_bit,
                 file_type |-> raw.file_type,
                 loads_count |-> raw.loads_count,
                 loads_size |-> raw.loads_size])

\* Section64::SIZE and SEGMENT64_SIZE.
Section64_SIZE == 80
SEGMENT64_SIZE == 64

NoSection ==
    [sectname |-> <<>>, segname |-> <<>>, addr |-> {}, size |-> {},
     offset |-> {}, align |-> {}, reloff |-> {}, nreloc |-> {},
     flags |-> {}, reserved1 |-> {}, reserved2 |-> {}]

\* Section64::from on an 80-byte slice: the section, or a panic when a name
\* is not UTF-8 (from_utf8(..).unwrap()).
Section64From(bs) ==
    IF ~Utf8Valid(Slice(bs, 0, 16)) \/ ~Utf8Valid(Slice(bs, 16, 16))
    THEN [tag |-> "Panic", section |-> NoSection]
    ELSE [tag |-> "Ok",
          section |->
            [sectname |-> trim_matches(Slice(bs, 0, 16)),
             segname |-> trim_matches(Slice(bs, 16, 16)),
             addr |-> U64At(bs, 32), size |-> U64At(bs, 40),
             offset |-> U32At(bs, 48), align |-> U32At(bs, 52),
             reloff |-> U32At(bs, 56), nreloc |-> U32At(bs, 60),
             flags |-> U32At(bs, 64), reserved1 |-> U32At(bs, 68),
             reserved2 |-> U32At(bs, 72)]]

\* The loop over 0..nsects of the Segment64 arm: the sections, or a panic
\* when a section record reaches past the slice or holds a bad name.
RECURSIVE SectionsLoop(_, _, _, _)
SectionsLoop(bs, nsects, i, sections) ==
    IF ~IntLess(i, nsects) THEN [tag |-> "Ok", sections |-> sections]
    ELSE LET start == SEGMENT64_SIZE + i * Section64_SIZE
             end == start + Section64_SIZE
         IN IF end > Len(bs) THEN [tag |-> "Panic", sections |-> <<>>]
            ELSE LET sec == Section64From(Slice(bs, start, Section64_SIZE))
                 IN IF sec.tag # "Ok" THEN [tag |-> "Panic", sections |-> <<>>]
                    ELSE SectionsLoop(bs, nsects, i + 1,
                                      Append(sections, sec.section))

NoCommand ==
    [size |-> {}, kind |-> "none", fields |-> <<>>, segname |-> <<>>,
     sections |-> <<>>, uuid |-> <<>>, tools |-> <<>>]

Command(size, kind, fields) ==
    [NoCommand EXCEPT !.size = size, !.kind = kind, !.fields = fields]

LoadResult(t, cmd, read) == [tag |-> t, cmd |-> cmd, read |-> read]
LoadErr(e) == LoadResult(e, NoCommand, 0)

\* The 0x02 arm of LoadCommand::from; bs is the slice after the prefix.
SymbolTableArm(bs, size) ==
    IF Len(bs) < 16 THEN LoadErr("Panic")
    ELSE LoadResult("Ok",
            Command(size, "SymbolTable",
                    <<U32At(bs, 0), U32At(bs, 4), U32At(bs, 8), U32At(bs, 12)>>),
            IntOf(size))

\* The 0x19 arm.
Segment64Arm(bs, size) ==
    IF Len(bs) < 60 THEN LoadErr("Panic")
    ELSE LET nsects == U32At(bs, 56)
             secs == SectionsLoop(bs, nsects, 0, <<>>)
         IN IF secs.tag # "Ok" THEN LoadErr("Panic")
            ELSE IF ~Utf8Valid(Slice(bs, 0, 16)) THEN LoadErr("BadSegmentName")
            ELSE IF Len(bs) < 64 THEN LoadErr("Panic")
            ELSE LoadResult("Ok",
                    [Command(size, "Segment64",
                             <<U64At(bs, 16), U64At(bs, 24), U64At(bs, 32),
                               U64At(bs, 40), U32At(bs, 48), U32At(bs, 52),
                               nsects, U32At(bs, 60)>>)
                        EXCEPT !.segname = trim_matches(Slice(bs, 0, 16)),
                               !.sections = secs.sections],
                    IntOf(size))

\* The 0x1b arm.
UuidArm(bs, size) ==
    IF Len(bs) < 16 THEN LoadErr("Panic")
    ELSE LoadResult("Ok",
            [Command(size, "Uuid", <<>>) EXCEPT !.uuid = Slice(bs, 0, 16)],
            IntOf(size))

\* The loop over 0..ntools of the 0x32 arm, on tool_bytes = bytes[16..].
RECURSIVE ToolsLoop(_, _, _, _)
ToolsLoop(tool_bytes, ntools, i, tools) ==
    IF ~IntLess(i, ntools) THEN [tag |-> "Ok", tools |-> tools]
    ELSE IF 8 * i + 8 > Len(tool_bytes) THEN [tag |-> "Panic", tools |-> <<>>]
    ELSE ToolsLoop(tool_bytes, ntools, i + 1,
                   Append(tools, <<U32At(tool_bytes, 8 * i),
                                   U32At(tool_bytes, 8 * i + 4)>>))

\* 0x18 + ntools * 8 in u32: the value, and whether it overflowed.
ExpectedBuildSize(ntools) ==
    LET product == {b + 3 : b \in ntools} \cap (0..31)
        sum == Add(BitsOfInt(24), product, 32)
    IN [value |-> sum[1],
        overflow |-> (ntools \cap (29..31) # {}) \/ sum[2]]

\* The 0x32 arm.
BuildVersionArm(bld, bs, size) ==
    IF Len(bs) < 16 THEN LoadErr("Panic")
    ELSE LET ntools == U32At(bs, 12)
             expected_size == ExpectedBuildSize(ntools)
         IN IF expected_size.overflow /\ bld = "debug" THEN LoadErr("Panic")
            ELSE IF size # expected_size.value THEN LoadErr("BadBuildCommandSize")
            ELSE LET tools == ToolsLoop(Slice(bs, 16, Len(bs) - 16), ntools, 0, <<>>)
                 IN IF tools.tag # "Ok" THEN LoadErr("Panic")
                    ELSE LoadResult("Ok",
                            [Command(size, "BuildVersion",
                                     <<U32At(bs, 0), U32At(bs, 4), U32At(bs, 8)>>)
                                EXCEPT !.tools = tools.tools],
                            IntOf(size))

\* LoadCommand::from.
LoadCommandFrom(bld, bytes0) ==
    IF Len(bytes0) < 8 THEN LoadErr("OutOfBytes")
    ELSE LET ttype == U32At(bytes0, 0)
             size == U32At(bytes0, 4)
             bs == Slice(bytes0, 8, Len(bytes0) - 8)
         IN IF IntLess(Len(bs), size) THEN LoadErr("OutOfBytes")
            ELSE IF ttype = BitsOfInt(2) THEN SymbolTableArm(bs, size)
            ELSE IF ttype = BitsOfInt(25) THEN Segment64Arm(bs, size)
            ELSE IF ttype = BitsOfInt(27) THEN UuidArm(bs, size)
            ELSE IF ttype = BitsOfInt(50) THEN BuildVersionArm(bld, bs, size)
            ELSE LoadResult("Ok",
                    Command(size, "UnrecognizedLoad", <<ttype>>), IntOf(size))

FileResult(t, h, cmds) == [tag |-> t, header |-> h, load_commands |-> cmds]

\* File::from without the loads_size test after the loop.
RECURSIVE LoadsLoopNoSizeTest(_, _, _, _, _, _)
LoadsLoopNoSizeTest(bld, bs, header, i, bytes_read, vec) ==
    IF IntLess(i, header.loads_count)
    THEN IF bytes_read > Len(bs) THEN FileResult("Panic", NoHeader, <<>>)
         ELSE LET load == LoadCommandFrom(bld,
                              Slice(bs, bytes_read, Len(bs) - bytes_read))
              IN IF load.tag # "Ok" THEN FileResult(load.tag, NoHeader, <<>>)
                 ELSE LoadsLoopNoSizeTest(bld, bs, header, i + 1,
                                          bytes_read + load.read,
                                          Append(vec, load.cmd))
    ELSE FileResult("Ok", header, vec)

\* The for loop of File::from over 0..loads_count, then the loads_size test.
RECURSIVE LoadsLoop(_, _, _, _, _, _)
LoadsLoop(bld, bs, header, i, bytes_read, vec) ==
    IF IntLess(i, header.loads_count)
    THEN IF bytes_read > Len(bs) THEN FileResult("Panic", NoHeader, <<>>)
         ELSE LET load == LoadCommandFrom(bld,
                              Slice(bs, bytes_read, Len(bs) - bytes_read))
              IN IF load.tag # "Ok" THEN FileResult(load.tag, NoHeader, <<>>)
                 ELSE LoadsLoop(bld, bs, header, i + 1, bytes_read + load.read,
                                Append(vec, load.cmd))
    ELSE IF BitsOfInt(bytes_read - 32) # header.loads_size
    THEN FileResult("LoadsSizeMismatch", NoHeader, <<>>)
    ELSE FileResult("Ok", header, vec)

\* macho::File::from.
MachoFileFrom(bld, bs) ==
    IF Len(bs) < 32 THEN FileResult("Panic", NoHeader, <<>>)
    ELSE LET header == from_header(RawHeaderFrom(Slice(bs, 0, 32)))
         IN IF header.tag # "Ok" THEN FileResult(header.tag, NoHeader, <<>>)
            ELSE LoadsLoop(bld, bs, header.header, 0, 32, <<>>)

\* ---------------------------------------------------------------- dwarf.rs
\* Results carry tag "Ok", "Err" or "Panic"; err is the String of an Err with
\* its formatted arguments left out.  from_ne_bytes is read little-endian
\* and usize is 64 bits wide, as on the hosts that produce Mach-O files.

\* The String a leb::Error turns into under `?`.
LebErrorString == "last byte in LEB has continue bit set"

\* "__debug_abbrev" and "__debug_info", the names Section::from matches.
NameDebugAbbrev == <<95, 95, 100, 101, 98, 117, 103, 95, 97, 98, 98, 114, 101, 118>>
NameDebugInfo == <<95, 95, 100, 101, 98, 117, 103, 95, 105, 110, 102, 111>>

\* &bytes[off..]; the caller has checked off <= Len(bs).
SliceFrom(bs, off) == SubSeq(bs, off + 1, Len(bs))

\* A decode that did not succeed: Err(err), or the unwinding of a panic.
\* Every function of this file returns Result<_, String>, so `?` hands the
\* same value up unchanged.
Fail(t, e) == [tag |-> t, err |-> e]

\* `let r = expr?; rest`: the rest runs on an Ok, a failure is handed up.
\* expr is evaluated once, as the code does, and its value bound to x.
Try(r, Then(_)) ==
    CHOOSE out \in {IF x.tag = "Ok" THEN Then(x) ELSE Fail(x.tag, x.err) :
                        x \in {r}} : TRUE

\* The leb::Error of a decode turned into a String.
LebToString(d) ==
    IF d.tag \in {"Ok", "Panic"} THEN d ELSE Fail("Err", LebErrorString)

\* uleb128_decode(..) as `?` sees it.
UlebTry(bld, bs) == LebToString(uleb128_decode(bld, bs))

\* The values DIETag::from accepts.
DIETagCodes ==
    (1..5) \cup {8, 10, 11, 13} \cup (15..19) \cup (21..61) \cup (63..67)
        \cup {16512, 65535}

\* DIETag::from; a tag is kept as its number.
DIETagFrom(value) ==
    IF Small(value) /\ IntOf(value) \in DIETagCodes
    THEN [tag |-> "Ok", val |-> IntOf(value)]
    ELSE Fail("Err", "bad DIE tag")

\* The values AttrName::from knows.
AttrNameCodes ==
    {1, 2, 3, 9, 11, 12, 13} \cup (16..19) \cup (21..30) \cup {32, 33, 34}
        \cup {37, 39, 42, 44, 46, 47} \cup (49..110) \cup {8192, 16383}

\* AttrName::from: a known name, or Unrecognized(n).
AttrNameFrom(n) ==
    [kind |-> IF Small(n) /\ IntOf(n) \in AttrNameCodes
              THEN "Known" ELSE "Unrecognized",
     n |-> n]

\* The values AttrForm::from knows.
AttrFormCodes == {1} \cup (3..25) \cup {32}

AttrFormName(k) ==
    CASE k = 1 -> "Addr"
      [] k = 3 -> "Block2"
      [] k = 4 -> "Block4"
      [] k = 5 -> "Data2"
      [] k = 6 -> "Data4"
      [] k = 7 -> "Data8"
      [] k = 8 -> "Stringg"
      [] k = 9 -> "Block"
      [] k = 10 -> "Block1"
      [] k = 11 -> "Data1"
      [] k = 12 -> "Flag"
      [] k = 13 -> "SData"
      [] k = 14 -> "StrP"
      [] k = 15 -> "Udata"
      [] k = 16 -> "RefAddr"
      [] k = 17 -> "Ref1"
      [] k = 18 -> "Ref2"
      [] k = 19 -> "Ref4"
      [] k = 20 -> "Ref8"
      [] k = 21 -> "RefUdata"
      [] k = 22 -> "Indirect"
      [] k = 23 -> "SecOffset"
      [] k = 24 -> "ExprLoc"
      [] k = 25 -> "FlagPresent"
      [] k = 32 -> "RefSig8"

\* An AttrForm::from that turns a number it does not know into Addr.
AttrFormFromNoUnrecognized(n) ==
    [kind |-> IF Small(n) /\ IntOf(n) \in AttrFormCodes
              THEN AttrFormName(IntOf(n)) ELSE "Addr",
     n |-> n]

\* AttrForm::from: a known form, or Unrecognized(n).
AttrFormFrom(n) ==
    [kind |-> IF Small(n) /\ IntOf(n) \in AttrFormCodes
              THEN AttrFormName(IntOf(n)) ELSE "Unrecognized",
     n |-> n]

NoForm == [kind |-> "none", n |-> {}]

\* An AttrValue: val for the integer variants and the flag (bit 0), data for
\* ExprLoc, form for Unimplemented.
AttrValue(kind, val, data, form) ==
    [kind |-> kind, val |-> val, data |-> data, form |-> form]

ValueResult(value, size) == [tag |-> "Ok", value |-> value, size |-> size]

\* What AttrValue::from hands back: the value and the bytes consumed.
NoValue == AttrValue("none", {}, <<>>, NoForm)
AttrRet(t, e, value, size) ==
    [tag |-> t, err |-> e, value |-> value, size |-> size]

\* from_ne_bytes(bytes[0..width]) wrapped in the variant `kind`.
FixedValue(bs, kind, width) ==
    IF Len(bs) < width THEN Fail("Panic", "")
    ELSE ValueResult(
            AttrValue(kind, LeBits(Slice(bs, 0, width)), <<>>, NoForm), width)

\* The ExprLoc arm: a ULEB128 length, then bytes[size..size+len].
ExprLocValue(bld, bs) ==
    Try(UlebTry(bld, bs), LAMBDA d :
        IF ~Small(d.val) \/ d.len + IntOf(d.val) > Len(bs)
        THEN Fail("Panic", "")
        ELSE ValueResult(
                AttrValue("ExprLoc", {}, Slice(bs, d.len, IntOf(d.val)), NoForm),
                IntOf(d.val) + d.len))

\* AttrValue::from.  The Ref8 arm converts an 8-byte slice into a [u8; 4],
\* which fails for every input.
AttrValueFrom(bld, bs, form) ==
    CASE form.kind = "Addr" -> FixedValue(bs, "Address", 8)
      [] form.kind = "Data1" -> FixedValue(bs, "Constant", 1)
      [] form.kind = "Data2" -> FixedValue(bs, "Constant", 2)
      [] form.kind = "Data4" -> FixedValue(bs, "Constant", 4)
      [] form.kind = "ExprLoc" -> ExprLocValue(bld, bs)
      [] form.kind = "Flag" ->
            IF Len(bs) < 1 THEN Fail("Panic", "")
            ELSE ValueResult(
                    AttrValue("Flag", IF bs[1] # 0 THEN {0} ELSE {}, <<>>, NoForm),
                    1)
      [] form.kind = "FlagPresent" ->
            ValueResult(AttrValue("Flag", {0}, <<>>, NoForm), 0)
      [] form.kind = "Ref1" -> FixedValue(bs, "OffsetReference", 1)
      [] form.kind = "Ref2" -> FixedValue(bs, "OffsetReference", 2)
      [] form.kind = "Ref4" -> FixedValue(bs, "OffsetReference", 4)
      [] form.kind = "Ref8" -> Fail("Panic", "")
      [] form.kind = "SecOffset" -> FixedValue(bs, "MacPtr", 4)
      [] form.kind = "StrP" -> FixedValue(bs, "StrP", 4)
      [] OTHER -> ValueResult(AttrValue("Unimplemented", {}, <<>>, form), 0)

\* The loop of AbbrevDecl::from over (name, form) pairs, up to the (0, 0) pair.
RECURSIVE SpecsLoop(_, _, _, _)
SpecsLoop(bld, bs, offset, attr_specs) ==
    Try(UlebTry(bld, SliceFrom(bs, offset)), LAMBDA name :
    Try(UlebTry(bld, SliceFrom(bs, offset + name.len)), LAMBDA form :
        IF name.val = {} /\ form.val = {}
        THEN [tag |-> "Ok", attr_specs |-> attr_specs,
              offset |-> offset + name.len + form.len]
        ELSE SpecsLoop(bld, bs, offset + name.len + form.len,
                Append(attr_specs, [name |-> AttrNameFrom(name.val),
                                    form |-> AttrFormFrom(form.val)]))))

\* AbbrevDecl::from.  bytes[offset] is read without a length test.
AbbrevDeclFrom(bld, bs) ==
    Try(UlebTry(bld, bs), LAMBDA code :
    Try(UlebTry(bld, SliceFrom(bs, code.len)), LAMBDA tag :
        IF code.len + tag.len >= Len(bs) THEN Fail("Panic", "")
        ELSE IF bs[code.len + tag.len + 1] \notin {0, 1}
        THEN Fail("Err", "bad DW_CHILDREN value")
        ELSE
    Try(SpecsLoop(bld, bs, code.len + tag.len + 1, <<>>), LAMBDA specs :
    Try(DIETagFrom(tag.val), LAMBDA dietag :
        [tag |-> "Ok",
         decl |-> [abbrev_code |-> code.val, tag |-> dietag.val,
                   has_children |-> bs[code.len + tag.len + 1] = 1,
                   attr_specs |-> specs.attr_specs],
         size |-> specs.offset]))))

\* The lookup of DIE::from without the comparison of codes: the first
\* declaration of the table is taken.
FindFirstDecl(abbrev_decls, abbr_code) ==
    IF abbrev_decls = <<>> THEN 0 ELSE 1

\* abbrev_decls.iter().find(|decl| decl.abbrev_code == abbr_code): the index
\* of the first match, 0 when there is none.
FindDecl(abbrev_decls, abbr_code) ==
    LET hits == {i \in 1..Len(abbrev_decls) :
                    abbrev_decls[i].abbrev_code = abbr_code}
    IN IF hits = {} THEN 0 ELSE CHOOSE i \in hits : \A j \in hits : i <= j

\* The loop of DIE::from leaving out the attributes it cannot decode.
RECURSIVE AttrsLoopKnownOnly(_, _, _, _, _, _)
AttrsLoopKnownOnly(bld, bs, attr_specs, j, offset, attrs) ==
    IF j > Len(attr_specs)
    THEN [tag |-> "Ok", attrs |-> attrs, offset |-> offset]
    ELSE Try(AttrValueFrom(bld, SliceFrom(bs, offset), attr_specs[j].form),
             LAMBDA r :
                AttrsLoopKnownOnly(bld, bs, attr_specs, j + 1, offset + r.size,
                    IF r.value.kind = "Unimplemented" THEN attrs
                    ELSE Append(attrs, [name |-> attr_specs[j].name,
                                        value |-> r.value])))

\* The loop of DIE::from over decl.attr_specs.
RECURSIVE AttrsLoop(_, _, _, _, _, _)
AttrsLoop(bld, bs, attr_specs, j, offset, attrs) ==
    IF j > Len(attr_specs)
    THEN [tag |-> "Ok", attrs |-> attrs, offset |-> offset]
    ELSE Try(AttrValueFrom(bld, SliceFrom(bs, offset), attr_specs[j].form),
             LAMBDA r :
                AttrsLoop(bld, bs, attr_specs, j + 1, offset + r.size,
                    Append(attrs, [name |-> attr_specs[j].name,
                                   value |-> r.value])))

\* A DIE and the bytes it took.
DIEResult(die_tag, attrs, children, size) ==
    [tag |-> "Ok",
     die |-> [tag |-> die_tag, attrs |-> attrs, children |-> children],
     size |-> size]

RECURSIVE DIEFrom(_, _, _)
RECURSIVE DIENfrom(_, _, _)
RECURSIVE NfromLoop(_, _, _, _, _)

\* What DIE::from does once it has found the declaration.
DIEOfDecl(bld, bs, abbrev_decls, decl, size) ==
    Try(AttrsLoop(bld, bs, decl.attr_specs, 1, size, <<>>), LAMBDA a :
        IF ~decl.has_children
        THEN DIEResult(decl.tag, a.attrs, <<>>, a.offset)
        ELSE
    Try(DIENfrom(bld, SliceFrom(bs, a.offset), abbrev_decls),
        LAMBDA c : DIEResult(decl.tag, a.attrs, c.dies, a.offset + c.size)))

\* DIE::from.
DIEFrom(bld, bs, abbrev_decls) ==
    Try(UlebTry(bld, bs), LAMBDA code :
        IF FindDecl(abbrev_decls, code.val) = 0
        THEN Fail("Err", "found no abbrev matching code")
        ELSE DIEOfDecl(bld, bs, abbrev_decls,
                abbrev_decls[FindDecl(abbrev_decls, code.val)], code.len))

\* What DIE::from and DIE::nfrom hand back: the entries and the bytes consumed.
DieRet(t, e, dies, size) ==
    [tag |-> t, err |-> e, dies |-> dies, size |-> size]

\* A sibling loop that stops at the zero code without consuming it.
NfromLoopTerminatorLeft(bld, bs, abbrev_decls, dies, offset) ==
    Try(UlebTry(bld, SliceFrom(bs, offset)), LAMBDA code :
        IF code.val = {}
        THEN [tag |-> "Ok", dies |-> dies, size |-> offset]
        ELSE
    Try(DIEFrom(bld, SliceFrom(bs, offset), abbrev_decls), LAMBDA r :
        NfromLoop(bld, bs, abbrev_decls, Append(dies, r.die),
            offset + r.size)))

\* The loop of DIE::nfrom: siblings up to a zero abbreviation code.
NfromLoop(bld, bs, abbrev_decls, dies, offset) ==
    Try(UlebTry(bld, SliceFrom(bs, offset)), LAMBDA code :
        IF code.val = {}
        THEN [tag |-> "Ok", dies |-> dies, size |-> offset + code.len]
        ELSE
    Try(DIEFrom(bld, SliceFrom(bs, offset), abbrev_decls), LAMBDA r :
        NfromLoop(bld, bs, abbrev_decls, Append(dies, r.die),
            offset + r.size)))

\* DIE::nfrom.
DIENfrom(bld, bs, abbrev_decls) == NfromLoop(bld, bs, abbrev_decls, <<>>, 0)

NoCUHeader ==
    [unit_length |-> {}, version |-> {}, debug_abbrev_offset |-> {},
     address_size |-> {}]

\* CUHeader::from on the 11 bytes it is given.
CUHeaderFrom(bs) ==
    [unit_length |-> LeBits(Slice(bs, 0, 4)),
     version |-> LeBits(Slice(bs, 4, 2)),
     debug_abbrev_offset |-> LeBits(Slice(bs, 6, 4)),
     address_size |-> BitsOfByte(bs[11])]

\* The variants of Section that the decoder builds.
DebugInfo(header, dies) ==
    [kind |-> "DebugInfo", name |-> <<>>, contents |-> <<>>,
     header |-> header, dies |-> dies, abbrevs |-> <<>>]
DebugAbbrev(abbrevs) ==
    [kind |-> "DebugAbbrev", name |-> <<>>, contents |-> <<>>,
     header |-> NoCUHeader, dies |-> <<>>, abbrevs |-> abbrevs]
Unrecognized(name, contents) ==
    [kind |-> "Unrecognized", name |-> name, contents |-> contents,
     header |-> NoCUHeader, dies |-> <<>>, abbrevs |-> <<>>]

SectionResult(section) == [tag |-> "Ok", section |-> section]

\* A "__debug_abbrev" loop that stops after its first declaration.
AbbrevsLoopFirstOnly(bld, bs, offset, abbrevs) ==
    Try(UlebTry(bld, SliceFrom(bs, offset)), LAMBDA code :
        IF code.val = {} THEN SectionResult(DebugAbbrev(abbrevs))
        ELSE
    Try(AbbrevDeclFrom(bld, SliceFrom(bs, offset)), LAMBDA r :
        SectionResult(DebugAbbrev(Append(abbrevs, r.decl)))))

\* The loop of the "__debug_abbrev" arm of Section::from.
RECURSIVE AbbrevsLoop(_, _, _, _)
AbbrevsLoop(bld, bs, offset, abbrevs) ==
    Try(UlebTry(bld, SliceFrom(bs, offset)), LAMBDA code :
        IF code.val = {} THEN SectionResult(DebugAbbrev(abbrevs))
        ELSE
    Try(AbbrevDeclFrom(bld, SliceFrom(bs, offset)), LAMBDA r :
        AbbrevsLoop(bld, bs, offset + r.size, Append(abbrevs, r.decl))))

\* The first DebugAbbrev section of `others`: its index, 0 when none.
FirstDebugAbbrev(others) ==
    LET hits == {i \in 1..Len(others) : others[i].kind = "DebugAbbrev"}
    IN IF hits = {} THEN 0 ELSE CHOOSE i \in hits : \A j \in hits : i <= j

\* The "__debug_info" arm of Section::from.
DebugInfoArm(bld, bs, others) ==
    IF Len(bs) < 11 THEN Fail("Panic", "")
    ELSE IF FirstDebugAbbrev(others) = 0
    THEN Fail("Err", "haven't parsed __debug_abbrev yet")
    ELSE Try(DIEFrom(bld, SliceFrom(bs, 11),
                     others[FirstDebugAbbrev(others)].abbrevs),
             LAMBDA r :
                SectionResult(
                    DebugInfo(CUHeaderFrom(Slice(bs, 0, 11)), <<r.die>>)))

\* Section::from with the bytes of an unrecognised section dropped.
SectionFromNoContents(bld, name, bs, others) ==
    IF name = NameDebugInfo THEN DebugInfoArm(bld, bs, others)
    ELSE IF name = NameDebugAbbrev THEN AbbrevsLoop(bld, bs, 0, <<>>)
    ELSE SectionResult(Unrecognized(name, <<>>))

\* Section::from.
SectionFrom(bld, name, bs, others) ==
    IF name = NameDebugInfo THEN DebugInfoArm(bld, bs, others)
    ELSE IF name = NameDebugAbbrev THEN AbbrevsLoop(bld, bs, 0, <<>>)
    ELSE SectionResult(Unrecognized(name, bs))

\* Whether bytes[start .. end] of a section lies in the image, where
\* start = offset as usize and end = start + size as usize.
InImage(sec, bs) ==
    Small(sec.offset) /\ Small(sec.size)
        /\ IntOf(sec.offset) + IntOf(sec.size) <= Len(bs)

\* File::macho_section_to_dwarf, and the body of the loop of File::from.
macho_section_to_dwarf(bld, sec, bs, others) ==
    IF ~InImage(sec, bs) THEN Fail("Panic", "")
    ELSE SectionFrom(bld, sec.sectname,
            Slice(bs, IntOf(sec.offset), IntOf(sec.size)), others)

\* What dwarf::File::from returns: on "Ok" the File's sections.
DwarfResult(t, e, sections) == [tag |-> t, err |-> e, sections |-> sections]

\* The placeholder the decoder starts every slot with.
RECURSIVE Placeholders(_)
Placeholders(segsections) ==
    IF segsections = <<>> THEN <<>>
    ELSE <<Unrecognized(Head(segsections).sectname, <<>>)>>
            \o Placeholders(Tail(segsections))

\* The index of the first section named "__debug_abbrev", 0 when none.
FindDebugAbbrev(segsections) ==
    LET hits == {i \in 1..Len(segsections) :
                    segsections[i].sectname = NameDebugAbbrev}
    IN IF hits = {} THEN 0 ELSE CHOOSE i \in hits : \A j \in hits : i <= j

\* The loop of File::from over segment.sections.
RECURSIVE FileSectionsLoop(_, _, _, _, _)
FileSectionsLoop(bld, segsections, bs, i, sections) ==
    IF i > Len(segsections) THEN [tag |-> "Ok", sections |-> sections]
    ELSE Try(macho_section_to_dwarf(bld, segsections[i], bs, sections),
             LAMBDA r :
                FileSectionsLoop(bld, segsections, bs, i + 1,
                    [sections EXCEPT ![i] = r.section]))

\* File::from without the early parse of __debug_abbrev: the sections are
\* decoded in segment order only.
FileFromInOrder(bld, segsections, bs) ==
    IF FindDebugAbbrev(segsections) = 0
    THEN Fail("Err", "missing __debug_abbrev section")
    ELSE FileSectionsLoop(bld, segsections, bs, 1, Placeholders(segsections))

\* File::from without the search for __debug_abbrev failing: a segment
\* without that section goes straight to the loop over the sections.
FileFromNoAbbrevTest(bld, segsections, bs) ==
    IF FindDebugAbbrev(segsections) = 0
    THEN FileSectionsLoop(bld, segsections, bs, 1, Placeholders(segsections))
    ELSE Try(macho_section_to_dwarf(bld,
                segsections[FindDebugAbbrev(segsections)], bs,
                Placeholders(segsections)),
             LAMBDA r :
                FileSectionsLoop(bld, segsections, bs, 1,
                    [Placeholders(segsections)
                        EXCEPT ![FindDebugAbbrev(segsections)] = r.section]))

\* The body of dwarf::File::from.
FileFromBody(bld, segsections, bs) ==
    IF FindDebugAbbrev(segsections) = 0
    THEN Fail("Err", "missing __debug_abbrev section")
    ELSE Try(macho_section_to_dwarf(bld,
                segsections[FindDebugAbbrev(segsections)], bs,
                Placeholders(segsections)),
             LAMBDA r :
                FileSectionsLoop(bld, segsections, bs, 1,
                    [Placeholders(segsections)
                        EXCEPT ![FindDebugAbbrev(segsections)] = r.section]))

\* dwarf::File::from on the sections of a segment and the image.
\* The Result of the body, with the sections of a failure left empty.
DwarfOf(r) ==
    IF r.tag = "Ok" THEN DwarfResult("Ok", "", r.sections)
    ELSE DwarfResult(r.tag, r.err, <<>>)

DwarfFileFrom(bld, segsections, bs) == DwarfOf(FileFromBody(bld, segsections, bs))

\* ------------------------------------------------------------------- loops
\* The three loops of the decoders, one iteration at a time.

\* A loop between iterations: which loop, the offset it stands at in its
\* byte slice, the iterations done, and "running" or how it ended.
Run(loop, offset, iter, status) ==
    [loop |-> loop, offset |-> offset, iter |-> iter, status |-> status]

Stop(r, status) == [r EXCEPT !.status = status]

\* `?` inside an iteration: a failure ends the loop.
StepTry(r, x, Then(_)) ==
    CHOOSE out \in {IF y.tag = "Ok" THEN Then(y) ELSE Stop(r, y.tag) :
                        y \in {x}} : TRUE

\* One pass of `for _ in 0..header.loads_count` of macho::File::from, or the
\* loads_size test after the last one.
LoadsIter(bld, bs, r) ==
    IF IntLess(r.iter, U32At(bs, 16))
    THEN IF r.offset > Len(bs) THEN Stop(r, "Panic")
         ELSE StepTry(r,
                LoadCommandFrom(bld, Slice(bs, r.offset, Len(bs) - r.offset)),
                LAMBDA load :
                    Run(r.loop, r.offset + load.read, r.iter + 1, "running"))
    ELSE IF BitsOfInt(r.offset - 32) # U32At(bs, 20)
    THEN Stop(r, "LoadsSizeMismatch")
    ELSE Stop(r, "Ok")

\* One pass of the loop of the "__debug_abbrev" arm of Section::from.
AbbrevsIter(bld, bs, r) ==
    StepTry(r, UlebTry(bld, SliceFrom(bs, r.offset)), LAMBDA code :
        IF code.val = {} THEN Stop(r, "Ok")
        ELSE
    StepTry(r, AbbrevDeclFrom(bld, SliceFrom(bs, r.offset)), LAMBDA abbr :
        Run(r.loop, r.offset + abbr.size, r.iter, "running")))

\* A pass of the loop of DIE::nfrom that does not add the entry's size.
SiblingsIterStuck(bld, bs, abbrev_decls, r) ==
    StepTry(r, UlebTry(bld, SliceFrom(bs, r.offset)), LAMBDA code :
        IF code.val = {}
        THEN Run(r.loop, r.offset + code.len, r.iter, "Ok")
        ELSE
    StepTry(r, DIEFrom(bld, SliceFrom(bs, r.offset), abbrev_decls), LAMBDA d :
        Run(r.loop, r.offset, r.iter, "running")))

\* One pass of the loop of DIE::nfrom.
SiblingsIter(bld, bs, abbrev_decls, r) ==
    StepTry(r, UlebTry(bld, SliceFrom(bs, r.offset)), LAMBDA code :
        IF code.val = {}
        THEN Run(r.loop, r.offset + code.len, r.iter, "Ok")
        ELSE
    StepTry(r, DIEFrom(bld, SliceFrom(bs, r.offset), abbrev_decls), LAMBDA d :
        Run(r.loop, r.offset + d.size, r.iter, "running")))

\* ------------------------------------------------------------ sampled inputs

\* Bit positions at the edges and in the middle of every 7-bit group, and
\* the top bit.
SamplePositions == {p \in Bits64 : p % 7 \in {0, 3, 6}} \cup {63}

\* The 64-bit values with at most k bits set, at the sampled positions.
RECURSIVE FewBits(_)
FewBits(k) ==
    IF k = 0 THEN {{}}
    ELSE LET prev == FewBits(k - 1)
         IN prev \cup {s \cup {b} : s \in prev, b \in SamplePositions}

\* The values of the unit tests of leb.rs (lines 91-136), as bit sets.
TestVectors ==
    {BitsOfInt(v) : v \in {0, 2, 127, 128, 129, 130, 12857}}
        \cup {Neg(BitsOfInt(v)) : v \in {1, 2, 127, 128, 129}}
        \cup {Bits64 \ {63}, I64Min}

\* Values with few 1 bits, values with few 0 bits (their complements), and
\* the test vectors.
SampleU64 ==
    FewBits(MaxSetBits) \cup {Bits64 \ s : s \in FewBits(MaxSetBits)}
        \cup TestVectors

RECURSIVE Repeat(_, _)
Repeat(b, k) == IF k = 0 THEN <<>> ELSE Append(Repeat(b, k - 1), b)

ContBytes == {128, 129, 255}
TermBytes == {0, 1, 64, 127}

\* k1 + k2 continuation bs, then nothing, a terminator, or a terminator
\* followed by one more byte.
SampleLeb ==
    LET heads == {Repeat(c1, k1) \o Repeat(c2, k2) :
                     c1 \in ContBytes, c2 \in {128, 255},
                     k1 \in 0..MaxCont, k2 \in 0..1}
        tails == {<<>>} \cup {<<t>> : t \in TermBytes}
                        \cup {<<t, x>> : t \in TermBytes, x \in {0, 128}}
    IN {h \o t : h \in {x \in heads : Len(x) <= MaxCont}, t \in tails}

\* ------------------------------------------------------ sampled images

\* A machine integer as `k` little-endian bytes.
RECURSIVE LeBytes(_, _)
LeBytes(w, k) ==
    IF k = 0 THEN <<>>
    ELSE <<ByteOfBits(w \cap (0..7))>> \o LeBytes(ShrU(w, 8), k - 1)

W32(v) == LeBytes(BitsOfInt(v), 4)
W64(v) == LeBytes(BitsOfInt(v), 8)

\* A name in its 16-byte buffer, NUL-padded.
Name16(name) == name \o Repeat(0, 16 - Len(name))

\* "__DWARF" and "__debug_str".
NameDwarf == <<95, 95, 68, 87, 65, 82, 70>>
NameDebugStr == <<95, 95, 100, 101, 98, 117, 103, 95, 115, 116, 114>>
\* A name that is not UTF-8 (a lone 0xFF).
NameBad == <<95, 255>>

\* The bytes of a load command: the (tag, size) prefix and the payload.
CommandBytes(ttype, size, payload) == W32(ttype) \o size \o payload

\* The 64-byte segment_command_64 payload.
SegmentPayload(segname, nsects) ==
    Name16(segname) \o W64(0) \o W64(4096) \o W64(512) \o W64(256)
        \o W32(7) \o W32(3) \o W32(nsects) \o W32(0)

\* An 80-byte section_64 record.
SectionBytes(sectname, segname, offset, size) ==
    Name16(sectname) \o Name16(segname) \o W64(0) \o W64(size) \o W32(offset)
        \o W32(0) \o W32(0) \o W32(0) \o W32(0) \o W32(0) \o W32(0) \o W32(0)

\* Load commands the decoder accepts when enough bytes follow them.
WellFormedCommands ==
    {   \* LC_SYMTAB
        CommandBytes(2, W32(24), W32(64) \o W32(2) \o W32(96) \o W32(16)),
        \* LC_UUID
        CommandBytes(27, W32(24), Repeat(171, 16)),
        \* LC_SEGMENT_64 with no section and with one section
        CommandBytes(25, W32(72), SegmentPayload(NameDwarf, 0)),
        CommandBytes(25, W32(152),
            SegmentPayload(NameDwarf, 1)
                \o SectionBytes(NameDebugInfo, NameDwarf, 512, 16)),
        \* LC_BUILD_VERSION with no tool and with one tool
        CommandBytes(50, W32(24), W32(1) \o W32(10) \o W32(11) \o W32(0)),
        CommandBytes(50, W32(32),
            W32(1) \o W32(10) \o W32(11) \o W32(1) \o W32(3) \o W32(4)),
        \* an unknown tag
        CommandBytes(153, W32(8), <<>>)
    }

\* Load commands whose bytes contradict their tag or their size.
MalformedCommands ==
    {   \* LC_SYMTAB whose declared size leaves out its fields
        CommandBytes(2, W32(8), <<>>),
        \* LC_SEGMENT_64 with two sections declared and none present, a
        \* segment name that is not UTF-8, a section name that is not UTF-8
        CommandBytes(25, W32(72), SegmentPayload(NameDwarf, 2)),
        CommandBytes(25, W32(72), SegmentPayload(NameBad, 0)),
        CommandBytes(25, W32(152),
            SegmentPayload(NameDwarf, 1)
                \o SectionBytes(NameBad, NameDwarf, 512, 16)),
        \* LC_BUILD_VERSION with a size that leaves out its tool, and with
        \* an ntools whose product with 8 wraps to 0
        CommandBytes(50, W32(24), W32(1) \o W32(10) \o W32(11) \o W32(1)),
        CommandBytes(50, W32(24),
            W32(1) \o W32(10) \o W32(11) \o W32(536870912)),
        \* unknown tags of size 0 and of size 0xFFFFFFFF
        CommandBytes(153, W32(0), <<>>),
        CommandBytes(153, <<255, 255, 255, 255>>, <<>>)
    }

SampleCommands == WellFormedCommands \cup MalformedCommands

\* The sequences of at most k well-formed load commands.
RECURSIVE WellFormedLists(_)
WellFormedLists(k) ==
    IF k = 0 THEN {<<>>}
    ELSE LET prev == WellFormedLists(k - 1)
         IN prev \cup {Append(l, c) : l \in prev, c \in WellFormedCommands}

\* The sequences of at most k load commands of which only the last may be
\* malformed.
CommandLists(k) ==
    IF k = 0 THEN {<<>>}
    ELSE WellFormedLists(k)
            \cup {Append(l, c) : l \in WellFormedLists(k - 1),
                                 c \in MalformedCommands}

RECURSIVE Flatten(_)
Flatten(l) == IF l = <<>> THEN <<>> ELSE Head(l) \o Flatten(Tail(l))

\* The 32-byte mach_header_64.
HeaderBytes(magic, cpu_type, cpu_subtype, file_type, loads_count, loads_size) ==
    magic \o cpu_type \o W32(cpu_subtype) \o W32(file_type)
        \o W32(loads_count) \o W32(loads_size) \o W32(0) \o W32(0)

Magic64 == <<207, 250, 237, 254>>
Magic32 == <<206, 250, 237, 254>>
\* CPU_TYPE_X86_64, CPU_TYPE_ARM64, CPU_TYPE_X86, and family 3 (unknown).
CpuX86_64 == <<7, 0, 0, 1>>
CpuArm64 == <<12, 0, 0, 1>>
CpuX86 == <<7, 0, 0, 0>>
CpuUnknown64 == <<3, 0, 0, 1>>

\* Headers alone: every pairing of magic, cpu type, subtype and file type.
SampleHeaders ==
    {HeaderBytes(m, c, s, f, 0, 0) :
        m \in {Magic64, Magic32, <<0, 0, 0, 0>>},
        c \in {CpuX86_64, CpuArm64, CpuX86, CpuUnknown64},
        s \in {3, 0, 99},
        f \in {2, 0}}

\* How the header and the tail of an image vary: the offset of the header's
\* count from the number of commands, the offset of its size from their
\* bytes, and the number of bytes after the last command.
ImageVariants == {<<0, 0, 8>>, <<0, 0, 0>>, <<1, 0, 8>>, <<0, 8, 8>>}

\* Images with load commands.
SampleLoadImages ==
    {HeaderBytes(Magic64, CpuX86_64, 3, 2,
                 Len(l) + v[1], Len(Flatten(l)) + v[2])
            \o Flatten(l) \o Repeat(0, v[3]) :
        l \in CommandLists(MaxLoads), v \in ImageVariants}

\* Images shorter than the header.
SampleShortImages ==
    {SubSeq(HeaderBytes(Magic64, CpuX86_64, 3, 2, 0, 0), 1, k) : k \in {0, 16, 31}}

SampleImages == SampleHeaders \cup SampleLoadImages \cup SampleShortImages

\* ---------------------------------------------------- sampled segments

\* Attribute forms in sampled abbreviations: addr, data2, data8, string,
\* data1, ref8, exprloc, flag_present, and a number that is no form.
SampleForms == {1, 5, 7, 8, 11, 20, 24, 25, 127}
\* The forms sampled for the attribute of a child entry.
SampleChildForms == {11, 24, 8}

\* A well-formed value of a form, as the producer of the file writes it.
ValueBytes(form) ==
    CASE form = 1 -> <<0, 16, 0, 0, 1, 0, 0, 0>>
      [] form = 5 -> <<7, 1>>
      [] form = 7 -> <<9, 0, 0, 0, 0, 0, 0, 0>>
      [] form = 8 -> <<104, 105, 0>>
      [] form = 11 -> <<7>>
      [] form = 20 -> <<11, 0, 0, 0, 0, 0, 0, 0>>
      [] form = 24 -> <<2, 145, 16>>
      [] OTHER -> <<>>

\* An abbreviation declaration with one attribute.
DeclBytes(code, tag, has_children, name, form) ==
    <<code, tag, has_children, name, form, 0, 0>>

\* Declaration 1 is a compile unit with children and a Name attribute,
\* declaration 2 a subprogram without children and a LowPc attribute.
AbbrevBytes(f1, f2) ==
    DeclBytes(1, 17, 1, 3, f1) \o DeclBytes(2, 46, 0, 17, f2) \o <<0>>

\* Abbreviation sections that are cut off or hold a bad value.
MalformedAbbrevs ==
    {<<>>, <<1>>, <<1, 17>>, <<128>>, <<1, 17, 2, 0, 0, 0>>,
     <<1, 0, 1, 0, 0, 0>>, <<1, 17, 1, 3, 8, 0, 0>>, <<1, 17, 1, 3>>,
     <<1, 17, 1, 127, 127, 0, 0, 0>>}

\* A table whose declarations have two attributes: a compile unit with
\* children, Name as data1 and LowPc as data2; a subprogram without children,
\* an attribute number that is no name as string and ByteSize as data1.
TwoAttrAbbrev ==
    <<1, 17, 1, 3, 11, 17, 5, 0, 0>> \o <<2, 46, 0, 127, 8, 11, 11, 0, 0>>
        \o <<0>>

\* Entries for that table: a root alone, a root with a child, a root cut
\* off in its second value.
TwoAttrBodies ==
    {<<1, 7, 9, 1, 0>>, <<1, 7, 9, 1, 2, 5, 0>>, <<1, 7, 9>>}

\* A table of one declaration: a compile unit with children whose Name is a
\* string; and the entry 01 'h' 'i' 00 00 written for it.
OneAttrAbbrev == DeclBytes(1, 17, 1, 3, 8) \o <<0>>
OneAttrBody == <<1, 104, 105, 0, 0>>

\* The 11-byte compile-unit header.
CUHeaderBytes == <<32, 0, 0, 0, 4, 0, 0, 0, 0, 0, 8>>

\* k child entries of declaration 2.
RECURSIVE Children(_, _)
Children(f2, k) ==
    IF k = 0 THEN <<>> ELSE <<2>> \o ValueBytes(f2) \o Children(f2, k - 1)

\* All but the last byte.
DropLast(bs) == IF bs = <<>> THEN <<>> ELSE SubSeq(bs, 1, Len(bs) - 1)

\* The entries after the compile-unit header: a root with up to MaxSiblings
\* children, a root nested in a root, a root without its terminator, a root
\* whose value is cut off, a code that is not declared, and code 0.
InfoBodies(f1, f2) ==
    {<<1>> \o ValueBytes(f1) \o Children(f2, k) \o <<0>> : k \in 0..MaxSiblings}
        \cup {<<1>> \o ValueBytes(f1) \o <<1>> \o ValueBytes(f1) \o <<0, 0>>,
              <<1>> \o ValueBytes(f1),
              <<1>> \o DropLast(ValueBytes(f1)),
              <<1>> \o ValueBytes(f1) \o <<2>> \o DropLast(ValueBytes(f2)),
              <<3>>,
              <<0>>}

\* Pairs of the contents of __debug_abbrev and of __debug_info.
SampleContents ==
    UNION {{<<AbbrevBytes(f1, f2), CUHeaderBytes \o body>> :
                body \in InfoBodies(f1, f2)} :
            f1 \in SampleForms, f2 \in SampleChildForms}
        \cup {<<a, CUHeaderBytes \o <<1, 7, 0>>>> : a \in MalformedAbbrevs}
        \cup {<<TwoAttrAbbrev, CUHeaderBytes \o body>> : body \in TwoAttrBodies}
        \cup {<<OneAttrAbbrev, CUHeaderBytes \o OneAttrBody>>}
        \cup {<<AbbrevBytes(11, 11), SubSeq(CUHeaderBytes, 1, 10)>>}

\* A section of a segment before it is placed in the image: its name, its
\* contents, and how far its recorded offset and size are off.
Item(name, contents, doffset, dsize) ==
    [name |-> name, contents |-> contents, doffset |-> doffset,
     dsize |-> dsize]

\* The orders and ranges sampled for a pair of contents.
Layouts(abbrev, info) ==
    LET a == Item(NameDebugAbbrev, abbrev, 0, 0)
        i == Item(NameDebugInfo, info, 0, 0)
        s == Item(NameDebugStr, <<104, 105, 0>>, 0, 0)
    IN {<<a, i>>, <<i, a>>, <<s, i, a>>, <<i>>, <<a>>, <<s>>, <<>>,
        <<a, Item(NameDebugInfo, info, 0, 1)>>,
        <<a, Item(NameDebugInfo, info, 4096, 0)>>,
        <<Item(NameDebugAbbrev, abbrev, 0, 4096), i>>}

\* The image of a layout: PadLen bytes, then the contents in order.
RECURSIVE Contents(_)
Contents(items) ==
    IF items = <<>> THEN <<>> ELSE Head(items).contents \o Contents(Tail(items))

ImagePad == <<202, 254, 186, 190>>

ImageOf(items) == ImagePad \o Contents(items)

\* The macho::Section64 records of a layout, placed from offset `at`.
RECURSIVE SectionsOf(_, _)
SectionsOf(items, at) ==
    IF items = <<>> THEN <<>>
    ELSE LET it == Head(items)
         IN <<[NoSection EXCEPT
                 !.sectname = it.name,
                 !.segname = NameDwarf,
                 !.offset = BitsOfInt(at + it.doffset),
                 !.size = BitsOfInt(Len(it.contents) + it.dsize)]>>
                \o SectionsOf(Tail(items), at + Len(it.contents))

SampleLayouts == UNION {Layouts(c[1], c[2]) : c \in SampleContents}

\* ------------------------------------------------------------------ actions

Init ==
    /\ build \in Builds
    /\ call = "none"
    /\ num = {}
    /\ bytes = <<>>
    /\ ret = NoRet
    /\ macho = FileResult("none", NoHeader, <<>>)
    /\ dwarf_seg = <<>>
    /\ dwarf_file = DwarfResult("none", "", <<>>)
    /\ die_decls = <<>>
    /\ die_ret = DieRet("none", "", <<>>, 0)
    /\ attr_form = NoForm
    /\ attr_ret = AttrRet("none", "", NoValue, 0)
    /\ run = Run("none", 0, 0, "none")

UlebEncode ==
    /\ call = "none"
    /\ \E m \in SampleU64 :
        /\ call' = "uleb128_encode"
        /\ num' = m
        /\ ret' = Boxed(uleb128_encode(m))
        /\ UNCHANGED <<build, bytes, macho, dwarf_seg, dwarf_file,
                     die_decls, die_ret, attr_form, attr_ret, run>>

UlebDecode ==
    /\ call = "none"
    /\ \E bs \in SampleLeb :
        /\ call' = "uleb128_decode"
        /\ bytes' = bs
        /\ ret' = uleb128_decode(build, bs)
        /\ UNCHANGED <<build, num, macho, dwarf_seg, dwarf_file,
                     die_decls, die_ret, attr_form, attr_ret, run>>

UlebRoundTrip ==
    /\ call = "none"
    /\ \E m \in SampleU64 :
        /\ call' = "uleb128_roundtrip"
        /\ num' = m
        /\ bytes' = uleb128_encode(m)
        /\ ret' = uleb128_decode(build, uleb128_encode(m))
        /\ UNCHANGED <<build, macho, dwarf_seg, dwarf_file,
                     die_decls, die_ret, attr_form, attr_ret, run>>

IlebEncode ==
    /\ call = "none"
    /\ \E m \in SampleU64 :
        /\ call' = "ileb128_encode"
        /\ num' = m
        /\ ret' = Boxed(ileb128_encode(m))
        /\ UNCHANGED <<build, bytes, macho, dwarf_seg, dwarf_file,
                     die_decls, die_ret, attr_form, attr_ret, run>>

IlebDecode ==
    /\ call = "none"
    /\ \E bs \in SampleLeb :
        /\ call' = "ileb128_decode"
        /\ bytes' = bs
        /\ ret' = ileb128_decode(build, bs)
        /\ UNCHANGED <<build, num, macho, dwarf_seg, dwarf_file,
                     die_decls, die_ret, attr_form, attr_ret, run>>

IlebRoundTrip ==
    /\ call = "none"
    /\ \E m \in SampleU64 :
        /\ call' = "ileb128_roundtrip"
        /\ num' = m
        /\ bytes' = ileb128_encode(m)
        /\ ret' = ileb128_decode(build, ileb128_encode(m))
        /\ UNCHANGED <<build, macho, dwarf_seg, dwarf_file,
                     die_decls, die_ret, attr_form, attr_ret, run>>

Next ==
    \/ UlebEncode
    \/ UlebDecode
    \/ UlebRoundTrip
    \/ IlebEncode
    \/ IlebDecode
    \/ IlebRoundTrip

Spec == Init /\ [][Next]_vars

\* macho::File::from on a sampled image.
MachoParse ==
    /\ call = "none"
    /\ \E bs \in SampleImages :
        /\ call' = "macho::File::from"
        /\ bytes' = bs
        /\ macho' = MachoFileFrom(build, bs)
        /\ UNCHANGED <<build, num, ret, dwarf_seg, dwarf_file,
                     die_decls, die_ret, attr_form, attr_ret, run>>

MachoNext == MachoParse

SpecMacho == Init /\ [][MachoNext]_vars

\* dwarf::File::from on a sampled segment and its image.
DwarfParse ==
    /\ call = "none"
    /\ \E items \in SampleLayouts :
        /\ call' = "dwarf::File::from"
        /\ bytes' = ImageOf(items)
        /\ dwarf_seg' = SectionsOf(items, Len(ImagePad))
        /\ dwarf_file' =
                DwarfFileFrom(build, SectionsOf(items, Len(ImagePad)),
                              ImageOf(items))
        /\ UNCHANGED <<build, num, ret, macho, die_decls, die_ret,
                     attr_form, attr_ret, run>>

\* The abbreviation tables and entry bytes of the sampled sections.
SampleTables ==
    {c \in SampleContents : AbbrevsLoop("release", c[1], 0, <<>>).tag = "Ok"}
SampleTails == {<<>>, <<0>>}

\* The table a "__debug_abbrev" section decodes to.
TableOf(bld, bs) == AbbrevsLoop(bld, bs, 0, <<>>).section.abbrevs

DieRetOf(r, one) ==
    IF r.tag = "Ok"
    THEN DieRet("Ok", "", IF one THEN <<r.die>> ELSE r.dies, r.size)
    ELSE DieRet(r.tag, r.err, <<>>, 0)

\* DIE::from on the entry bytes of a sampled section, with its table.
DieFrom ==
    /\ call = "none"
    /\ \E c \in SampleTables :
        /\ call' = "DIE::from"
        /\ bytes' = SliceFrom(c[2], 11)
        /\ die_decls' = TableOf(build, c[1])
        /\ die_ret' = DieRetOf(DIEFrom(build, SliceFrom(c[2], 11),
                                       TableOf(build, c[1])), TRUE)
        /\ UNCHANGED <<build, num, ret, macho, dwarf_seg, dwarf_file,
                     attr_form, attr_ret, run>>

\* DIE::nfrom on a sampled run of siblings, with its table.
DieNfrom ==
    /\ call = "none"
    /\ \E c \in SampleTables, tail \in SampleTails :
        /\ call' = "DIE::nfrom"
        /\ bytes' = SliceFrom(c[2], 11) \o tail
        /\ die_decls' = TableOf(build, c[1])
        /\ die_ret' = DieRetOf(DIENfrom(build, SliceFrom(c[2], 11) \o tail,
                                        TableOf(build, c[1])), FALSE)
        /\ UNCHANGED <<build, num, ret, macho, dwarf_seg, dwarf_file,
                     attr_form, attr_ret, run>>

DwarfNext == DwarfParse \/ DieFrom \/ DieNfrom

SpecDwarf == Init /\ [][DwarfNext]_vars

\* The forms and byte strings given to AttrValue::from: every form of the
\* enumeration and three numbers outside it.
SampleAttrForms ==
    {AttrFormFrom(BitsOfInt(k)) : k \in AttrFormCodes \cup {0, 2, 127}}
SampleAttrBytes ==
    {<<>>, <<7>>, <<7, 1>>, <<2, 145, 16>>, <<1, 2, 3, 4>>, <<128>>,
     <<1, 2, 3, 4, 5, 6, 7, 8>>,
     <<255, 255, 255, 255, 255, 255, 255, 255, 9>>}

AttrRetOf(r) ==
    IF r.tag = "Ok" THEN AttrRet("Ok", "", r.value, r.size)
    ELSE AttrRet(r.tag, r.err, NoValue, 0)

\* AttrValue::from on a sampled form and byte string.
AttrValueParse ==
    /\ call = "none"
    /\ \E form \in SampleAttrForms, bs \in SampleAttrBytes :
        /\ call' = "AttrValue::from"
        /\ bytes' = bs
        /\ attr_form' = form
        /\ attr_ret' = AttrRetOf(AttrValueFrom(build, bs, form))
        /\ UNCHANGED <<build, num, ret, macho, dwarf_seg, dwarf_file,
                     die_decls, die_ret, run>>

AttrNext == AttrValueParse

SpecAttr == Init /\ [][AttrNext]_vars

\* Load commands for the loop of File::from: LC_UUID, and unknown tags of
\* size 8, of size 0 and of size 0xFFFFFFFF, in every position.
LoopCommands ==
    {CommandBytes(27, W32(24), Repeat(171, 16)),
     CommandBytes(153, W32(8), <<>>),
     CommandBytes(153, W32(0), <<>>),
     CommandBytes(153, <<255, 255, 255, 255>>, <<>>)}

RECURSIVE LoopLists(_)
LoopLists(k) ==
    IF k = 0 THEN {<<>>}
    ELSE LoopLists(k - 1)
            \cup {Append(l, c) : l \in LoopLists(k - 1), c \in LoopCommands}

LoopImages ==
    {HeaderBytes(Magic64, CpuX86_64, 3, 2,
                 Len(l) + v[1], Len(Flatten(l)) + v[2])
            \o Flatten(l) \o Repeat(0, v[3]) :
        l \in LoopLists(MaxLoads), v \in ImageVariants}

\* File::from reaches its loop over the load commands of a sampled image.
LoadsStart ==
    /\ call = "none"
    /\ \E bs \in LoopImages :
        /\ call' = "macho::File::from loop"
        /\ bytes' = bs
        /\ run' = Run("loads", 32, 0, "running")
        /\ UNCHANGED <<build, num, ret, macho, dwarf_seg, dwarf_file,
                     die_decls, die_ret, attr_form, attr_ret>>

LoadsStep ==
    /\ run.loop = "loads"
    /\ run.status = "running"
    /\ run' = LoadsIter(build, bytes, run)
    /\ UNCHANGED <<build, call, num, bytes, ret, macho, dwarf_seg, dwarf_file,
                     die_decls, die_ret, attr_form, attr_ret>>

\* Section::from reaches the loop of its "__debug_abbrev" arm.
AbbrevsStart ==
    /\ call = "none"
    /\ \E c \in SampleContents :
        /\ call' = "Section::from loop"
        /\ bytes' = c[1]
        /\ run' = Run("abbrevs", 0, 0, "running")
        /\ UNCHANGED <<build, num, ret, macho, dwarf_seg, dwarf_file,
                     die_decls, die_ret, attr_form, attr_ret>>

AbbrevsStep ==
    /\ run.loop = "abbrevs"
    /\ run.status = "running"
    /\ run' = AbbrevsIter(build, bytes, run)
    /\ UNCHANGED <<build, call, num, bytes, ret, macho, dwarf_seg, dwarf_file,
                     die_decls, die_ret, attr_form, attr_ret>>

\* DIE::nfrom reaches its loop over the siblings.
SiblingsStart ==
    /\ call = "none"
    /\ \E c \in SampleTables, tail \in SampleTails :
        /\ call' = "DIE::nfrom loop"
        /\ bytes' = SliceFrom(c[2], 11) \o tail
        /\ die_decls' = TableOf(build, c[1])
        /\ run' = Run("siblings", 0, 0, "running")
        /\ UNCHANGED <<build, num, ret, macho, dwarf_seg, dwarf_file,
                     die_ret, attr_form, attr_ret>>

SiblingsStep ==
    /\ run.loop = "siblings"
    /\ run.status = "running"
    /\ run' = SiblingsIter(build, bytes, die_decls, run)
    /\ UNCHANGED <<build, call, num, bytes, ret, macho, dwarf_seg, dwarf_file,
                     die_decls, die_ret, attr_form, attr_ret>>

LoopNext ==
    \/ LoadsStart \/ LoadsStep
    \/ AbbrevsStart \/ AbbrevsStep
    \/ SiblingsStart \/ SiblingsStep
    \/ DieFrom

SpecLoops == Init /\ [][LoopNext]_vars

\* No loop waits on anything: a started loop takes its next iteration.
SpecLoopsLive ==
    /\ SpecLoops
    /\ WF_vars(LoadsStep) /\ WF_vars(AbbrevsStep) /\ WF_vars(SiblingsStep)

\* main decodes the Mach-O image and then its DWARF segment.
ParseNext == MachoNext \/ DwarfNext

SpecParse == Init /\ [][ParseNext]_vars

\* ------------------------------------------------------------ LEB claims

\* The bytes of an input all carry the continuation bit.
NoTerminator(bs) == \A i \in 1..Len(bs) : bs[i] >= 128

\* 1-based index of the first byte with the high bit clear.
FirstTerminator(bs) ==
    CHOOSE k \in 1..Len(bs) :
        /\ bs[k] < 128
        /\ \A i \in 1..(k - 1) : bs[i] >= 128

\* The low 7 bits of bs[1..k], concatenated little-endian, cut to 64 bits.
Concat7(bs, k) ==
    UNION {Shl(BitsOfByte(bs[i]) \cap (0..6), 7 * (i - 1)) : i \in 1..k}

\* Bits 7(i-1) .. 7(i-1)+6 of n, as a payload 0..127 (i is 1-based).
Group7(n, i) == ByteOfBits(ShrU(n, 7 * (i - 1)) \cap (0..6))

\* Bit p of the sign-extended i64 n.
SignedBit(n, p) == IF p > 63 THEN 63 \in n ELSE p \in n

\* After j bytes, the rest of n (n >> 7j, arithmetic) is 0 with bit 6 of
\* the j-th payload 0, or -1 with that bit 1: every bit from 7j-1 up agrees.
SignedStop(n, j) ==
    \A p \in (7 * j - 1)..63 : SignedBit(n, p) = SignedBit(n, 63)

\* C1: for every unsigned 64-bit n, uleb128_decode(uleb128_encode(n))
\* succeeds and returns (n, length of uleb128_encode(n)).
C1_UnsignedRoundTrip ==
    call = "uleb128_roundtrip" => ret = Ok(num, Len(bytes))

\* C1's case: a round trip of a value with bit 63 set (a 10-byte encoding).
C1_Witness ==
    /\ call = "uleb128_roundtrip"
    /\ 63 \in num
    /\ ret.tag = "Ok"
    /\ ret.len = 10

\* C2: for every signed 64-bit n, ileb128_decode(ileb128_encode(n)) succeeds
\* without arithmetic overflow and returns (n, length of ileb128_encode(n)).
C2_SignedRoundTrip ==
    call = "ileb128_roundtrip" => ret = Ok(num, Len(bytes))

\* C3: uleb128_decode returns LastByteHasContinueBit exactly when no byte of
\* the input has its high bit clear (the empty input included); otherwise it
\* returns (v, k), k-1 the index of the first byte with the high bit clear,
\* 1 <= k <= len, v the little-endian concatenation of the low 7 bits.
C3_UnsignedDecode ==
    call = "uleb128_decode" =>
        IF NoTerminator(bytes)
        THEN ret = LastByteHasContinueBit
        ELSE LET k == FirstTerminator(bytes)
             IN /\ ret = Ok(Concat7(bytes, k), k)
                /\ 1 <= k /\ k <= Len(bytes)

C5_SignedDecodeFraming ==
    call = "ileb128_decode" =>
        /\ NoTerminator(bytes) => ret = LastByteHasContinueBit
        /\ ret.tag = "Ok" => (1 <= ret.len /\ ret.len <= Len(bytes))

\* C6: uleb128_encode(n) has length ceil(bits(n)/7) (1 for n = 0), every
\* non-final byte has its high bit set, the final byte has it clear, and
\* the low 7 bits of byte i are bits 7i..7i+6 of n.
C6_UnsignedEncode ==
    call = "uleb128_encode" =>
        LET bits == IF num = {} THEN 0
                    ELSE 1 + CHOOSE b \in num : \A c \in num : c <= b
            len == IF num = {} THEN 1 ELSE (bits + 6) \div 7
        IN /\ Len(ret.out) = len
           /\ \A i \in 1..(len - 1) : ret.out[i] >= 128
           /\ ret.out[len] < 128
           /\ \A i \in 1..len : ret.out[i] % 128 = Group7(num, i)

\* C6's case: the encoding of a value with bit 63 set is 10 bytes long.
C6_Witness ==
    /\ call = "uleb128_encode"
    /\ 63 \in num
    /\ Len(ret.out) = 10
    /\ ret.out[10] = 1

\* C7: ileb128_encode(n) ends, emitting bytes until the rest of n after the
\* arithmetic shift is 0 with bit 6 of the payload just emitted 0, or -1
\* with that bit 1; earlier bytes have the high bit set, the final byte has
\* it clear; 127 encodes as [0xFF, 0x00] and -129 as [0xFF, 0x7E].
C7_SignedEncode ==
    call = "ileb128_encode" =>
        LET len == CHOOSE j \in 1..10 :
                       /\ SignedStop(num, j)
                       /\ \A h \in 1..(j - 1) : ~SignedStop(num, h)
        IN /\ Len(ret.out) = len
           /\ \A i \in 1..(len - 1) : ret.out[i] >= 128
           /\ ret.out[len] < 128
           /\ \A i \in 1..len :
                 BitsOfByte(ret.out[i] % 128)
                     = {b \in 0..6 : SignedBit(num, 7 * (i - 1) + b)}
           /\ num = BitsOfInt(127) => ret.out = <<255, 0>>
           /\ num = Neg(BitsOfInt(129)) => ret.out = <<255, 126>>

\* C7's case: -129 has been encoded, in two bytes.
C7_Witness ==
    /\ call = "ileb128_encode"
    /\ num = Neg(BitsOfInt(129))
    /\ ret.out = <<255, 126>>

\* The payload of a terminated input reaches past bit 63.
PayloadBeyond64(bs) ==
    /\ ~NoTerminator(bs)
    /\ \E i \in 1..FirstTerminator(bs) :
           \E b \in BitsOfByte(bs[i]) \cap (0..6) : 7 * (i - 1) + b > 63

\* C8: for a terminated input whose payload extends beyond 64 bits,
\* uleb128_decode returns an overflow error or a wrapped 64-bit value with
\* the correct bytes_consumed; the shift never aborts the decode.
C8_UnsignedOverflow ==
    (call = "uleb128_decode" /\ PayloadBeyond64(bytes)) =>
        \/ ret.tag = "OverflowLEB"
        \/ ret.tag = "Ok" /\ ret.len = FirstTerminator(bytes)

\* ---------------------------------------------------------- Mach-O claims

\* C9: for every byte image macho::File::from returns a File or an error
\* value and never crashes, also for images shorter than 32 bytes, load
\* commands whose declared size is smaller than the fields read for their
\* tag, and segment commands whose section records pass the available bytes.
C9_MachoNeverCrashes ==
    call = "macho::File::from" => macho.tag # "Panic"

\* C11: header decoding derives is_64_bit = (cpu_type & 0x01000000) != 0 and
\* accepts the magic only when it is 0xFEEDFACE with is_64_bit false or
\* 0xFEEDFACF with is_64_bit true; every other pair, 0xFEEDFACE with the
\* 64-bit flag in particular, fails with the magic-mismatch error.
C11_MagicCrossCheck ==
    (call = "macho::File::from" /\ Len(bytes) >= 32) =>
        LET is_64_bit == bytes[8] % 2 = 1
            accepted == \/ (SubSeq(bytes, 1, 4) = Magic32 /\ ~is_64_bit)
                        \/ (SubSeq(bytes, 1, 4) = Magic64 /\ is_64_bit)
        IN /\ (macho.tag = "MagicMismatch") <=> ~accepted
           /\ macho.tag = "Ok" => macho.header.is_64_bit = is_64_bit

\* C11's case: magic 0xFEEDFACE on a cpu type with the 64-bit flag is refused.
C11_Witness ==
    /\ call = "macho::File::from"
    /\ Len(bytes) >= 32
    /\ SubSeq(bytes, 1, 4) = Magic32
    /\ bytes[8] % 2 = 1
    /\ macho.tag = "MagicMismatch"

\* The offset in the image of the i-th load command (i from 1), found by
\* walking the size fields from offset 32.
RECURSIVE LoadOffset(_, _)
LoadOffset(bs, i) ==
    IF i = 1 THEN 32
    ELSE LoadOffset(bs, i - 1) + IntOf(U32At(bs, LoadOffset(bs, i - 1) + 4))

\* The kind of load command a tag stands for.
KindOfTag(ttype) ==
    CASE ttype = BitsOfInt(2) -> "SymbolTable"
      [] ttype = BitsOfInt(25) -> "Segment64"
      [] ttype = BitsOfInt(27) -> "Uuid"
      [] ttype = BitsOfInt(50) -> "BuildVersion"
      [] OTHER -> "UnrecognizedLoad"

\* C12: macho::File::from succeeds only if the size fields of the parsed
\* load commands add up to header.loads_size; when all loads_count commands
\* parse and the sum differs it returns LoadsSizeMismatch; on success
\* load_commands holds exactly loads_count entries in file order.
C12_LoadAccounting ==
    (call = "macho::File::from" /\ macho.tag \in {"Ok", "LoadsSizeMismatch"}) =>
        LET loads_count == IntOf(U32At(bytes, 16))
            loads_size == IntOf(U32At(bytes, 20))
            sum == LoadOffset(bytes, loads_count + 1) - 32
        IN /\ (macho.tag = "Ok") <=> (sum = loads_size)
           /\ macho.tag = "Ok" =>
                /\ Len(macho.load_commands) = loads_count
                /\ \A i \in 1..loads_count :
                    LET at == LoadOffset(bytes, i)
                    IN /\ macho.load_commands[i].kind = KindOfTag(U32At(bytes, at))
                       /\ macho.load_commands[i].size = U32At(bytes, at + 4)

\* C12's case: an image with two load commands of different kinds decodes,
\* the commands in file order.
C12_Witness ==
    /\ call = "macho::File::from"
    /\ macho.tag = "Ok"
    /\ Len(macho.load_commands) = 2
    /\ macho.load_commands[1].kind = "Segment64"
    /\ macho.load_commands[2].kind = "Uuid"
    /\ IntOf(U32At(bytes, 20)) = 152 + 24

\* Whether the image starts its load commands with an LC_SEGMENT_64 whose
\* header and nsects section records all lie within the declared size.
FirstIsWholeSegment(bs) ==
    /\ Len(bs) >= 40 + SEGMENT64_SIZE
    /\ U32At(bs, 16) # {}
    /\ U32At(bs, 32) = BitsOfInt(25)
    /\ Small(U32At(bs, 36)) /\ Small(U32At(bs, 40 + 56))
    /\ IntOf(U32At(bs, 36)) <= Len(bs) - 40
    /\ SEGMENT64_SIZE + Section64_SIZE * IntOf(U32At(bs, 40 + 56)) <= Len(bs) - 40

\* The 16-byte name buffers of that segment: its segname, then sectname and
\* segname of every section.
SegmentNameBuffers(bs) ==
    {Slice(bs, 40, 16)}
        \cup UNION {{Slice(bs, 40 + SEGMENT64_SIZE + Section64_SIZE * i, 16),
                     Slice(bs, 40 + SEGMENT64_SIZE + Section64_SIZE * i + 16, 16)} :
                    i \in 0..(IntOf(U32At(bs, 40 + 56)) - 1)}

\* C13: in an LC_SEGMENT_64 command a 16-byte name buffer that is not valid
\* UTF-8, be it the segment's segname or a section's sectname or segname,
\* makes the decode return the BadSegmentName error rather than crash; valid
\* buffers are returned NUL-trimmed.
C13_BadNameIsError ==
    (call = "macho::File::from" /\ macho.tag # "MagicMismatch"
        /\ FirstIsWholeSegment(bytes)) =>
        /\ (\E name \in SegmentNameBuffers(bytes) : ~Utf8Valid(name))
                => macho.tag = "BadSegmentName"
        /\ macho.tag = "Ok" =>
                macho.load_commands[1].segname = trim_matches(Slice(bytes, 40, 16))

\* ------------------------------------------------------------ DWARF claims

\* C10: for every segment and byte image dwarf::File::from returns a File
\* or an error value and never crashes, also for a section whose range lies
\* outside the image, a __debug_info section shorter than the 11-byte
\* header, an abbreviation declaration cut off before its has_children byte,
\* and attribute values or exprloc blocks that run past the section's end.
C10_DwarfNeverCrashes ==
    call = "dwarf::File::from" => dwarf_file.tag # "Panic"

\* The indices in a segment of the sections with a given name.
SectionsNamed(segsections, name) ==
    {i \in 1..Len(segsections) : segsections[i].sectname = name}

\* C14: wherever __debug_abbrev and __debug_info stand in the segment's
\* section list, __debug_info first included, the abbreviation table is
\* parsed before __debug_info, __debug_info is decoded against it, and the
\* result equals the one obtained when __debug_abbrev precedes __debug_info.
C14_AbbrevFirst ==
    (call = "dwarf::File::from"
        /\ Cardinality(SectionsNamed(dwarf_seg, NameDebugAbbrev)) = 1
        /\ Cardinality(SectionsNamed(dwarf_seg, NameDebugInfo)) = 1) =>
        LET ia == CHOOSE i \in SectionsNamed(dwarf_seg, NameDebugAbbrev) : TRUE
            ii == CHOOSE i \in SectionsNamed(dwarf_seg, NameDebugInfo) : TRUE
            r == DwarfFileFrom(build, <<dwarf_seg[ia], dwarf_seg[ii]>>, bytes)
        IN /\ dwarf_file.tag = r.tag
           /\ dwarf_file.err = r.err
           /\ dwarf_file.tag = "Ok" =>
                /\ dwarf_file.sections[ia] = r.sections[1]
                /\ dwarf_file.sections[ii] = r.sections[2]
                /\ dwarf_file.sections[ii].kind = "DebugInfo"

\* C14's case: a segment with __debug_info before __debug_abbrev decodes, and
\* the root entry has a child decoded against the table.
C14_Witness ==
    /\ call = "dwarf::File::from"
    /\ Len(dwarf_seg) = 2
    /\ dwarf_seg[1].sectname = NameDebugInfo
    /\ dwarf_seg[2].sectname = NameDebugAbbrev
    /\ dwarf_file.tag = "Ok"
    /\ dwarf_file.sections[1].kind = "DebugInfo"
    /\ Len(dwarf_file.sections[1].dies[1].children) = 1

\* C15: on success of dwarf::File::from, sections is as long as
\* segment.sections and slot i holds the decode of segment.sections[i]:
\* DebugAbbrev for __debug_abbrev, DebugInfo for __debug_info, otherwise
\* Unrecognized with that section's name and exactly the image bytes
\* [offset, offset+size); no slot keeps its empty placeholder.
C15_SlotsAligned ==
    (call = "dwarf::File::from" /\ dwarf_file.tag = "Ok") =>
        /\ Len(dwarf_file.sections) = Len(dwarf_seg)
        /\ \A i \in 1..Len(dwarf_seg) :
            LET sec == dwarf_seg[i]
                out == dwarf_file.sections[i]
            IN IF sec.sectname = NameDebugAbbrev THEN out.kind = "DebugAbbrev"
               ELSE IF sec.sectname = NameDebugInfo THEN out.kind = "DebugInfo"
               ELSE /\ out.kind = "Unrecognized"
                    /\ out.name = sec.sectname
                    /\ out.contents =
                        SubSeq(bytes, IntOf(sec.offset) + 1,
                               IntOf(sec.offset) + IntOf(sec.size))

\* C15's case: a segment of __debug_str, __debug_info and __debug_abbrev
\* decodes, and the first slot carries the three bytes of __debug_str.
C15_Witness ==
    /\ call = "dwarf::File::from"
    /\ dwarf_file.tag = "Ok"
    /\ Len(dwarf_seg) = 3
    /\ dwarf_seg[1].sectname = NameDebugStr
    /\ dwarf_file.sections[1].contents = <<104, 105, 0>>
    /\ dwarf_file.sections[2].kind = "DebugInfo"
    /\ dwarf_file.sections[3].kind = "DebugAbbrev"

\* C16: if the segment holds a section named __debug_info and none named
\* __debug_abbrev, dwarf::File::from fails with the missing-abbreviation-table
\* error and returns no File.
C16_MissingAbbrevTable ==
    (call = "dwarf::File::from"
        /\ SectionsNamed(dwarf_seg, NameDebugInfo) # {}
        /\ SectionsNamed(dwarf_seg, NameDebugAbbrev) = {}) =>
        dwarf_file = DwarfResult("Err", "missing __debug_abbrev section", <<>>)

\* C16's case: a segment whose only section is __debug_info is refused.
C16_Witness ==
    /\ call = "dwarf::File::from"
    /\ Len(dwarf_seg) = 1
    /\ dwarf_seg[1].sectname = NameDebugInfo
    /\ dwarf_file.tag = "Err"
    /\ dwarf_file.err = "missing __debug_abbrev section"

\* The abbreviation code that stands at an offset of the image.
CodeAt(bs, off) == uleb128_decode("release", SliceFrom(bs, off))

\* The bytes the value of a form takes at an offset, as AttrValue::from
\* frames it.
FormBytes(bs, off, form) ==
    CASE form.kind = "Addr" -> 8
      [] form.kind \in {"Data1", "Flag", "Ref1"} -> 1
      [] form.kind \in {"Data2", "Ref2"} -> 2
      [] form.kind \in {"Data4", "Ref4", "SecOffset", "StrP"} -> 4
      [] form.kind = "ExprLoc" ->
            CodeAt(bs, off).len + IntOf(CodeAt(bs, off).val)
      [] OTHER -> 0

\* The offset after the values of attr_specs[j..] that start at off.
RECURSIVE AttrsEnd(_, _, _, _)
AttrsEnd(bs, off, attr_specs, j) ==
    IF j > Len(attr_specs) THEN off
    ELSE AttrsEnd(bs, off + FormBytes(bs, off, attr_specs[j].form),
                  attr_specs, j + 1)

\* The declarations of a table with a given code.
DeclsWithCode(abbrev_decls, code) ==
    {k \in 1..Len(abbrev_decls) : abbrev_decls[k].abbrev_code = code}

\* A decoded tree laid over the bytes it came from: every entry of the tree
\* in preorder with the offset it starts at, the code that stands there, the
\* index of the first declaration with that code (0 when none) and the
\* offset after it; `end` is the offset after the whole tree.
RECURSIVE TreeNodes(_, _, _, _)
RECURSIVE KidsNodes(_, _, _, _, _)
TreeNodes(bs, off, die, abbrev_decls) ==
    LET code == CodeAt(bs, off)
        ks == DeclsWithCode(abbrev_decls, code.val)
    IN IF ks = {}
       THEN [nodes |-> <<[die |-> die, code |-> code.val, at |-> off,
                          decl |-> 0, end |-> off]>>,
             end |-> off]
       ELSE LET k == CHOOSE i \in ks : \A j \in ks : i <= j
                attrs_end == AttrsEnd(bs, off + code.len,
                                      abbrev_decls[k].attr_specs, 1)
                kids == KidsNodes(bs, attrs_end, die.children, 1, abbrev_decls)
                end == IF abbrev_decls[k].has_children
                       THEN kids.end + CodeAt(bs, kids.end).len
                       ELSE attrs_end
            IN [nodes |-> <<[die |-> die, code |-> code.val, at |-> off,
                             decl |-> k, end |-> end]>> \o kids.nodes,
                end |-> end]

KidsNodes(bs, off, children, i, abbrev_decls) ==
    IF i > Len(children) THEN [nodes |-> <<>>, end |-> off]
    ELSE LET t == TreeNodes(bs, off, children[i], abbrev_decls)
             rest == KidsNodes(bs, t.end, children, i + 1, abbrev_decls)
         IN [nodes |-> t.nodes \o rest.nodes, end |-> rest.end]

\* A segment with exactly one __debug_abbrev and one __debug_info section.
OneTableOneInfo ==
    /\ Cardinality(SectionsNamed(dwarf_seg, NameDebugAbbrev)) = 1
    /\ Cardinality(SectionsNamed(dwarf_seg, NameDebugInfo)) = 1

AbbrevIndex == CHOOSE i \in SectionsNamed(dwarf_seg, NameDebugAbbrev) : TRUE
InfoIndex == CHOOSE i \in SectionsNamed(dwarf_seg, NameDebugInfo) : TRUE

\* The offset in the image of the first entry of __debug_info.
InfoStart == IntOf(dwarf_seg[InfoIndex].offset) + 11

\* The entries of the decoded tree of __debug_info, laid over the image.
DecodedNodes ==
    TreeNodes(bytes, InfoStart, dwarf_file.sections[InfoIndex].dies[1],
              dwarf_file.sections[AbbrevIndex].abbrevs).nodes

\* The abbreviation table of the segment, decoded on its own.
TableAlone ==
    macho_section_to_dwarf(build, dwarf_seg[AbbrevIndex], bytes, <<>>)

\* C17: every entry of a successfully decoded tree was decoded against a
\* declaration whose code is the entry's abbreviation code and whose tag is
\* the entry's tag; a top-level entry whose code matches no declaration of
\* the table, code 0 included, makes the decode fail with the
\* unknown-abbreviation-code error.
C17_CodeMatchesDecl ==
    (call = "dwarf::File::from" /\ OneTableOneInfo) =>
        /\ dwarf_file.tag = "Ok" =>
            \A n \in 1..Len(DecodedNodes) :
                \E k \in DeclsWithCode(dwarf_file.sections[AbbrevIndex].abbrevs,
                                       DecodedNodes[n].code) :
                    dwarf_file.sections[AbbrevIndex].abbrevs[k].tag
                        = DecodedNodes[n].die.tag
        /\ (/\ \A i \in 1..Len(dwarf_seg) : InImage(dwarf_seg[i], bytes)
            /\ IntOf(dwarf_seg[InfoIndex].size) > 11
            /\ TableAlone.tag = "Ok"
            /\ CodeAt(bytes, InfoStart).tag = "Ok"
            /\ DeclsWithCode(TableAlone.section.abbrevs,
                             CodeAt(bytes, InfoStart).val) = {})
            => dwarf_file =
                DwarfResult("Err", "found no abbrev matching code", <<>>)

\* C17's case: a tree of a compile unit (code 1) with a subprogram child
\* (code 2) decodes.
C17_Witness ==
    /\ call = "dwarf::File::from"
    /\ OneTableOneInfo
    /\ dwarf_file.tag = "Ok"
    /\ Len(DecodedNodes) = 2
    /\ DecodedNodes[1].code = {0} /\ DecodedNodes[1].die.tag = 17
    /\ DecodedNodes[2].code = {1} /\ DecodedNodes[2].die.tag = 46

\* C18: for every entry of a successfully decoded tree, len(attrs) equals
\* len(attr_specs) of the abbreviation it was decoded against and
\* attrs[j].name equals attr_specs[j].name for every j.
C18_AttrsComplete ==
    (call = "dwarf::File::from" /\ OneTableOneInfo /\ dwarf_file.tag = "Ok") =>
        \A n \in 1..Len(DecodedNodes) :
            LET attrs == DecodedNodes[n].die.attrs
                attr_specs ==
                    dwarf_file.sections[AbbrevIndex]
                        .abbrevs[DecodedNodes[n].decl].attr_specs
            IN /\ DecodedNodes[n].decl # 0
               /\ Len(attrs) = Len(attr_specs)
               /\ \A j \in 1..Len(attrs) : attrs[j].name = attr_specs[j].name

\* C18's case: a root with two attributes and a child with two attributes,
\* one of them of a form the decoder does not implement.
C18_Witness ==
    /\ call = "dwarf::File::from"
    /\ OneTableOneInfo
    /\ dwarf_file.tag = "Ok"
    /\ Len(DecodedNodes) = 2
    /\ Len(DecodedNodes[1].die.attrs) = 2
    /\ Len(DecodedNodes[2].die.attrs) = 2
    /\ DecodedNodes[2].die.attrs[1].value.kind = "Unimplemented"
    /\ DecodedNodes[2].die.attrs[1].name # DecodedNodes[2].die.attrs[2].name


\* C19: DIE::nfrom stops at the first zero abbreviation code that stands at
\* a sibling boundary, consumes it, and reports the siblings' bytes plus the
\* terminator; an entry whose declaration has no children has an empty
\* children list and takes no terminator; DIE::from reports code bytes plus
\* attribute bytes plus children bytes.
RetNodes == KidsNodes(bytes, 0, die_ret.dies, 1, die_decls)

\* The offset after the attribute values of the n-th returned entry, and the
\* offset after its children.
RetAttrsEnd(n) ==
    AttrsEnd(bytes,
             RetNodes.nodes[n].at + CodeAt(bytes, RetNodes.nodes[n].at).len,
             die_decls[RetNodes.nodes[n].decl].attr_specs, 1)
RetKidsEnd(n) ==
    KidsNodes(bytes, RetAttrsEnd(n), RetNodes.nodes[n].die.children, 1,
              die_decls).end

C19_ChildrenTermination ==
    (call \in {"DIE::from", "DIE::nfrom"} /\ die_ret.tag = "Ok") =>
        /\ \A n \in 1..Len(RetNodes.nodes) :
            /\ RetNodes.nodes[n].code # {}
            /\ RetNodes.nodes[n].decl # 0
            /\ die_decls[RetNodes.nodes[n].decl].has_children =>
                    /\ CodeAt(bytes, RetKidsEnd(n)).tag = "Ok"
                    /\ CodeAt(bytes, RetKidsEnd(n)).val = {}
                    /\ RetNodes.nodes[n].end =
                         RetKidsEnd(n) + CodeAt(bytes, RetKidsEnd(n)).len
            /\ ~die_decls[RetNodes.nodes[n].decl].has_children =>
                    /\ RetNodes.nodes[n].die.children = <<>>
                    /\ RetNodes.nodes[n].end = RetAttrsEnd(n)
        /\ call = "DIE::from" =>
            /\ Len(die_ret.dies) = 1
            /\ die_ret.size = RetNodes.end
        /\ call = "DIE::nfrom" =>
            /\ CodeAt(bytes, RetNodes.end).tag = "Ok"
            /\ CodeAt(bytes, RetNodes.end).val = {}
            /\ die_ret.size = RetNodes.end + CodeAt(bytes, RetNodes.end).len

\* DIE::nfrom returned an entry with children whose child has none, and
\* consumed all of its bytes, both terminators included.
C19_Witness ==
    /\ call = "DIE::nfrom"
    /\ die_ret.tag = "Ok"
    /\ Len(die_ret.dies) = 1
    /\ Len(die_ret.dies[1].children) = 1
    /\ die_ret.dies[1].children[1].children = <<>>
    /\ die_ret.size = Len(bytes)
    /\ die_ret.size > 3

\* C20: a decode that meets an attribute form AttrValue::from does not
\* implement either fails or decodes nothing after that attribute: in a
\* tree that DIE::from or DIE::nfrom returns, an Unimplemented value is the
\* last attribute of its entry, and that entry has no children and is the
\* last entry of the tree.
C20_UnimplementedStops ==
    (call \in {"DIE::from", "DIE::nfrom"} /\ die_ret.tag = "Ok") =>
        \A n \in 1..Len(RetNodes.nodes) :
            \A i \in 1..Len(RetNodes.nodes[n].die.attrs) :
                RetNodes.nodes[n].die.attrs[i].value.kind = "Unimplemented" =>
                    /\ i = Len(RetNodes.nodes[n].die.attrs)
                    /\ RetNodes.nodes[n].die.children = <<>>
                    /\ n = Len(RetNodes.nodes)

\* The bytes of the image that the i-th section of the segment names.
ContentsOf(i) ==
    Slice(bytes, IntOf(dwarf_seg[i].offset), IntOf(dwarf_seg[i].size))

\* The segment holds the table 01 11 01 03 08 00 00 00 and a __debug_info of
\* a compile-unit header followed by 01 68 69 00 00.
DieOneAttrScenario ==
    /\ call = "dwarf::File::from"
    /\ Len(dwarf_seg) = 2
    /\ OneTableOneInfo
    /\ InImage(dwarf_seg[1], bytes)
    /\ InImage(dwarf_seg[2], bytes)
    /\ ContentsOf(AbbrevIndex) = <<1, 17, 1, 3, 8, 0, 0, 0>>
    /\ ContentsOf(InfoIndex) = CUHeaderBytes \o <<1, 104, 105, 0, 0>>

\* C21: in the scenario DIE-one-attr the decode succeeds with exactly one
\* top-level entry, a CompileUnit with the single attribute Name (an
\* Unimplemented(Stringg) value) and no children.
C21_DieOneAttr ==
    DieOneAttrScenario =>
        /\ dwarf_file.tag = "Ok"
        /\ Len(dwarf_file.sections[InfoIndex].dies) = 1
        /\ dwarf_file.sections[InfoIndex].dies[1].tag = 17
        /\ Len(dwarf_file.sections[InfoIndex].dies[1].attrs) = 1
        /\ dwarf_file.sections[InfoIndex].dies[1].attrs[1].name
                = AttrNameFrom(BitsOfInt(3))
        /\ dwarf_file.sections[InfoIndex].dies[1].attrs[1].value.kind
                = "Unimplemented"
        /\ dwarf_file.sections[InfoIndex].dies[1].attrs[1].value.form.kind
                = "Stringg"
        /\ dwarf_file.sections[InfoIndex].dies[1].children = <<>>

\* The offset after the (0, 0) pair that ends the (name, form) pairs which
\* start at off, -1 when the bytes end before it; every number is one byte.
RECURSIVE PairsEnd(_, _)
PairsEnd(bs, off) ==
    IF off + 2 > Len(bs) THEN -1
    ELSE IF bs[off + 1] = 0 /\ bs[off + 2] = 0 THEN off + 2
    ELSE PairsEnd(bs, off + 2)

\* Whether the bytes from off are declarations of one-byte numbers with a
\* known tag and a flag of 0 or 1, each closed by a (0, 0) pair, up to a
\* zero code; nothing is asked of the names and forms.
RECURSIVE WellFramedFrom(_, _)
WellFramedFrom(bs, off) ==
    IF off >= Len(bs) THEN FALSE
    ELSE IF bs[off + 1] = 0 THEN TRUE
    ELSE /\ off + 3 <= Len(bs)
         /\ bs[off + 2] \in DIETagCodes
         /\ bs[off + 3] \in {0, 1}
         /\ PairsEnd(bs, off + 3) # -1
         /\ WellFramedFrom(bs, PairsEnd(bs, off + 3))

\* The offset of the k-th declaration of a decoded table in its bytes.
RECURSIVE DeclOffset(_, _)
DeclOffset(abbrevs, k) ==
    IF k = 1 THEN 0
    ELSE DeclOffset(abbrevs, k - 1)
            + 3 + 2 * (Len(abbrevs[k - 1].attr_specs) + 1)

\* A segment whose only section is a __debug_abbrev of one-byte numbers.
TableOnly ==
    /\ call = "dwarf::File::from"
    /\ Len(dwarf_seg) = 1
    /\ dwarf_seg[1].sectname = NameDebugAbbrev
    /\ InImage(dwarf_seg[1], bytes)
    /\ \A i \in 1..Len(ContentsOf(1)) : ContentsOf(1)[i] < 128

\* An image with a valid header whose load commands all have a tag the
\* decoder does not know and lie within the image.
UnknownTag(ttype) == KindOfTag(ttype) = "UnrecognizedLoad"

AllUnknownLoads ==
    /\ call = "macho::File::from"
    /\ Len(bytes) >= 32
    /\ from_header(RawHeaderFrom(Slice(bytes, 0, 32))).tag = "Ok"
    /\ U32At(bytes, 16) # {}
    /\ Small(U32At(bytes, 16))
    /\ \A i \in 1..IntOf(U32At(bytes, 16)) :
        /\ LoadOffset(bytes, i) + 8 <= Len(bytes)
        /\ UnknownTag(U32At(bytes, LoadOffset(bytes, i)))
        /\ Small(U32At(bytes, LoadOffset(bytes, i) + 4))
        /\ LoadOffset(bytes, i) + 8
                + IntOf(U32At(bytes, LoadOffset(bytes, i) + 4)) <= Len(bytes)

\* C22: a table whose framing is sound decodes whatever its attribute name
\* and form numbers are, and a number outside the enumeration is kept as
\* Unrecognized(n); load commands with unknown tags decode, each kept as
\* UnrecognizedLoad(tag) with its declared size, the next command being read
\* that many bytes later.
C22_UnknownPreserved ==
    /\ TableOnly =>
        /\ WellFramedFrom(ContentsOf(1), 0) => dwarf_file.tag = "Ok"
        /\ dwarf_file.tag = "Ok" =>
            \A k \in 1..Len(dwarf_file.sections[1].abbrevs) :
                \A j \in 1..Len(dwarf_file.sections[1].abbrevs[k].attr_specs) :
                    LET at == DeclOffset(dwarf_file.sections[1].abbrevs, k)
                                + 3 + 2 * (j - 1)
                        spec == dwarf_file.sections[1].abbrevs[k].attr_specs[j]
                    IN /\ spec.name.n = BitsOfInt(ContentsOf(1)[at + 1])
                       /\ spec.form.n = BitsOfInt(ContentsOf(1)[at + 2])
                       /\ (spec.name.kind = "Unrecognized")
                            <=> (ContentsOf(1)[at + 1] \notin AttrNameCodes)
                       /\ (spec.form.kind = "Unrecognized")
                            <=> (ContentsOf(1)[at + 2] \notin AttrFormCodes)
    /\ AllUnknownLoads => macho.tag \in {"Ok", "LoadsSizeMismatch"}
    /\ (call = "macho::File::from" /\ macho.tag = "Ok") =>
        \A i \in 1..Len(macho.load_commands) :
            UnknownTag(U32At(bytes, LoadOffset(bytes, i))) =>
                macho.load_commands[i]
                    = Command(U32At(bytes, LoadOffset(bytes, i) + 4),
                              "UnrecognizedLoad",
                              <<U32At(bytes, LoadOffset(bytes, i))>>)

\* A table with a name that is no attribute name and a form that is no
\* form decoded, both kept as Unrecognized.
C22_Witness ==
    /\ TableOnly
    /\ WellFramedFrom(ContentsOf(1), 0)
    /\ dwarf_file.tag = "Ok"
    /\ \E k \in 1..Len(dwarf_file.sections[1].abbrevs) :
        \E j \in 1..Len(dwarf_file.sections[1].abbrevs[k].attr_specs) :
            /\ dwarf_file.sections[1].abbrevs[k].attr_specs[j].name.kind
                    = "Unrecognized"
            /\ dwarf_file.sections[1].abbrevs[k].attr_specs[j].form.kind
                    = "Unrecognized"

\* Whether, walking the declarations of one-byte numbers from off, one is
\* met whose children flag is neither 0 nor 1, everything before it being
\* sound.
RECURSIVE BadFlagFrom(_, _)
BadFlagFrom(bs, off) ==
    /\ off + 3 <= Len(bs)
    /\ bs[off + 1] # 0
    /\ \/ bs[off + 3] \notin {0, 1}
       \/ /\ bs[off + 2] \in DIETagCodes
          /\ PairsEnd(bs, off + 3) # -1
          /\ BadFlagFrom(bs, PairsEnd(bs, off + 3))

\* C23: the decoded table holds the declarations of the stream in order up
\* to the first zero code at a declaration boundary, which is left out; each
\* declaration holds its code (never 0), its tag, its children flag and the
\* (name, form) pairs before its (0, 0) pair; a flag other than 0 and 1 is
\* an error; 01 11 01 03 08 00 00 00 gives the single declaration
\* (1, CompileUnit, true, [(Name, Stringg)]).
C23_AbbrevTable ==
    TableOnly =>
        /\ dwarf_file.tag = "Ok" =>
            /\ dwarf_file.sections[1].kind = "DebugAbbrev"
            /\ DeclOffset(dwarf_file.sections[1].abbrevs,
                    Len(dwarf_file.sections[1].abbrevs) + 1) < Len(ContentsOf(1))
            /\ ContentsOf(1)[DeclOffset(dwarf_file.sections[1].abbrevs,
                    Len(dwarf_file.sections[1].abbrevs) + 1) + 1] = 0
            /\ \A k \in 1..Len(dwarf_file.sections[1].abbrevs) :
                LET at == DeclOffset(dwarf_file.sections[1].abbrevs, k)
                    decl == dwarf_file.sections[1].abbrevs[k]
                    n == Len(decl.attr_specs)
                IN /\ decl.abbrev_code # {}
                   /\ decl.abbrev_code = BitsOfInt(ContentsOf(1)[at + 1])
                   /\ decl.tag = ContentsOf(1)[at + 2]
                   /\ ContentsOf(1)[at + 3] \in {0, 1}
                   /\ decl.has_children = (ContentsOf(1)[at + 3] = 1)
                   /\ \A j \in 1..n :
                        /\ decl.attr_specs[j].name
                            = AttrNameFrom(BitsOfInt(ContentsOf(1)[at + 2 + 2 * j]))
                        /\ decl.attr_specs[j].form
                            = AttrFormFrom(BitsOfInt(ContentsOf(1)[at + 3 + 2 * j]))
                        /\ <<ContentsOf(1)[at + 2 + 2 * j],
                              ContentsOf(1)[at + 3 + 2 * j]>> # <<0, 0>>
                   /\ ContentsOf(1)[at + 4 + 2 * n] = 0
                   /\ ContentsOf(1)[at + 5 + 2 * n] = 0
        /\ BadFlagFrom(ContentsOf(1), 0) =>
            /\ dwarf_file.tag = "Err"
            /\ dwarf_file.err = "bad DW_CHILDREN value"
        /\ ContentsOf(1) = <<1, 17, 1, 3, 8, 0, 0, 0>> =>
            /\ dwarf_file.tag = "Ok"
            /\ dwarf_file.sections[1].abbrevs
                = <<[abbrev_code |-> {0}, tag |-> 17, has_children |-> TRUE,
                     attr_specs |-> <<[name |-> [kind |-> "Known", n |-> {0, 1}],
                                       form |-> [kind |-> "Stringg",
                                                 n |-> {3}]]>>]>>

\* A table of two declarations, the second with two pairs, was decoded.
C23_Witness ==
    /\ TableOnly
    /\ dwarf_file.tag = "Ok"
    /\ Len(dwarf_file.sections[1].abbrevs) = 2
    /\ Len(dwarf_file.sections[1].abbrevs[2].attr_specs) = 2
    /\ ~dwarf_file.sections[1].abbrevs[2].has_children

\* The number of bytes a fixed-width form names: dataN and refN.
WidthOf(kind) ==
    CASE kind \in {"Data1", "Ref1"} -> 1
      [] kind \in {"Data2", "Ref2"} -> 2
      [] kind \in {"Data4", "Ref4"} -> 4
      [] kind \in {"Data8", "Ref8"} -> 8

\* C24: for data1, data2, data4 and data8 and an input of at least 1, 2, 4
\* and 8 bytes, AttrValue::from returns Constant of those bytes read
\* little-endian, with that many bytes consumed.
C24_DataForms ==
    (call = "AttrValue::from"
        /\ attr_form.kind \in {"Data1", "Data2", "Data4", "Data8"}
        /\ Len(bytes) >= WidthOf(attr_form.kind)) =>
        /\ attr_ret.tag = "Ok"
        /\ attr_ret.value.kind = "Constant"
        /\ attr_ret.value.val = LeBits(Slice(bytes, 0, WidthOf(attr_form.kind)))
        /\ attr_ret.size = WidthOf(attr_form.kind)

\* C25: for ref1, ref2, ref4 and ref8 and an input of at least 1, 2, 4 and
\* 8 bytes, AttrValue::from returns OffsetReference of those bytes read
\* little-endian, with that many bytes consumed.
C25_RefForms ==
    (call = "AttrValue::from"
        /\ attr_form.kind \in {"Ref1", "Ref2", "Ref4", "Ref8"}
        /\ Len(bytes) >= WidthOf(attr_form.kind)) =>
        /\ attr_ret.tag = "Ok"
        /\ attr_ret.value.kind = "OffsetReference"
        /\ attr_ret.value.val = LeBits(Slice(bytes, 0, WidthOf(attr_form.kind)))
        /\ attr_ret.size = WidthOf(attr_form.kind)

\* An image with a valid header whose first load command is a build-version
\* command with its 16 fixed bytes, whose declared size is below 2^28 and
\* passes the bounds test of LoadCommand::from.
FirstIsBuildVersion ==
    /\ call = "macho::File::from"
    /\ Len(bytes) >= 32 + 8 + 16
    /\ from_header(RawHeaderFrom(Slice(bytes, 0, 32))).tag = "Ok"
    /\ U32At(bytes, 16) # {}
    /\ U32At(bytes, 32) = BitsOfInt(50)
    /\ U32At(bytes, 36) \subseteq 0..27
    /\ IntOf(U32At(bytes, 36)) <= Len(bytes) - 40

\* size = 0x18 + 8 * ntools as numbers, for a size below 2^28.
BuildSizeMatches(size, ntools) ==
    /\ ntools \subseteq 0..24
    /\ IntOf(size) = 24 + 8 * IntOf(ntools)

\* C26: a build-version command whose size is not 0x18 + 8 * ntools, the
\* product and the sum taken without wrap-around, fails with
\* BadBuildCommandSize; an accepted one has that size and exactly ntools
\* tool records.
C26_BuildVersionSize ==
    FirstIsBuildVersion =>
        /\ ~BuildSizeMatches(U32At(bytes, 36), U32At(bytes, 52)) =>
                macho.tag = "BadBuildCommandSize"
        /\ macho.tag = "Ok" =>
            /\ BuildSizeMatches(U32At(bytes, 36), U32At(bytes, 52))
            /\ macho.load_commands[1].kind = "BuildVersion"
            /\ Len(macho.load_commands[1].tools) = IntOf(U32At(bytes, 52))

\* An image with a valid header and one load command whose declared size,
\* counted from the command's first byte, lies within the image.
OneLoadWithinImage ==
    /\ call = "macho::File::from"
    /\ Len(bytes) >= 32 + 8
    /\ from_header(RawHeaderFrom(Slice(bytes, 0, 32))).tag = "Ok"
    /\ U32At(bytes, 16) = BitsOfInt(1)
    /\ Small(U32At(bytes, 36))
    /\ 32 + IntOf(U32At(bytes, 36)) <= Len(bytes)

\* C27: a load command of which size bytes, the 8-byte prefix included,
\* remain in the image is not rejected as out of bytes, also when it ends
\* exactly at the end of the image.
C27_SizeIncludesPrefix ==
    OneLoadWithinImage => macho.tag # "OutOfBytes"

\* C28: a segment with neither __debug_abbrev nor __debug_info, whose
\* sections lie in the image, decodes with every section kept as
\* Unrecognized(name, raw bytes); the missing-table error is returned only
\* for a segment that holds __debug_info.
C28_NoDebugSections ==
    call = "dwarf::File::from" =>
        /\ (/\ SectionsNamed(dwarf_seg, NameDebugAbbrev) = {}
            /\ SectionsNamed(dwarf_seg, NameDebugInfo) = {}
            /\ \A i \in 1..Len(dwarf_seg) : InImage(dwarf_seg[i], bytes)) =>
                /\ dwarf_file.tag = "Ok"
                /\ Len(dwarf_file.sections) = Len(dwarf_seg)
                /\ \A i \in 1..Len(dwarf_seg) :
                    dwarf_file.sections[i]
                        = Unrecognized(dwarf_seg[i].sectname, ContentsOf(i))
        /\ (dwarf_file.tag = "Err"
                /\ dwarf_file.err = "missing __debug_abbrev section") =>
                SectionsNamed(dwarf_seg, NameDebugInfo) # {}

\* The nesting depth of a decoded entry.
RECURSIVE DepthOf(_)
RECURSIVE KidsDepth(_, _)
DepthOf(die) == 1 + KidsDepth(die.children, 1)
KidsDepth(children, i) ==
    IF i > Len(children) THEN 0
    ELSE LET d == DepthOf(children[i])
             rest == KidsDepth(children, i + 1)
         IN IF d > rest THEN d ELSE rest

\* Between two iterations the abbreviation loop and the sibling loop have
\* moved forward, and the load-command loop has counted one more pass.
LoopProgress ==
    (run.status = "running" /\ run'.status = "running") =>
        /\ run.loop \in {"abbrevs", "siblings"} => run'.offset > run.offset
        /\ run.loop = "loads" => run'.iter = run.iter + 1

\* The load-command loop never passes loads_count, and when no command
\* fails it ends after exactly loads_count passes.
LoadsBounded ==
    run.loop = "loads" =>
        /\ run.iter <= IntOf(U32At(bytes, 16))
        /\ run.status \in {"Ok", "LoadsSizeMismatch"} =>
                run.iter = IntOf(U32At(bytes, 16))

\* An entry that DIE::from returns took at least one byte per nesting level.
ByteEachLevel ==
    (call = "DIE::from" /\ die_ret.tag = "Ok") =>
        DepthOf(die_ret.dies[1]) <= die_ret.size

\* C29: every loop ends: the load-command loop runs loads_count times, also
\* over commands of size 0; every iteration of the abbreviation loop and of
\* the sibling loop moves the offset forward; an entry takes at least one
\* byte per nesting level; a loop that runs comes to a result or an error.
C29_Terminates ==
    /\ [][LoopProgress]_vars
    /\ []LoadsBounded
    /\ []ByteEachLevel
    /\ (run.status = "running") ~> (run.status # "running")

\* The load-command loop ended after two passes over commands of size 0,
\* its offset still at the first command, and went on to the loads_size test.
C29_Witness ==
    /\ run.loop = "loads"
    /\ run.status = "LoadsSizeMismatch"
    /\ run.iter = 2
    /\ run.offset = 32

====
